---- MODULE Spec2Model ----
(***************************************************************************)
(* A model of src/src/App.jsx (ants_dashboard): the statistics engine of   *)
(* the dashboard.  The React state of App() is the state of the machine;   *)
(* every useMemo value (filteredBattingData, aggregatedBatting, the trend  *)
(* series, gameByGameStats, ...) is a function of that state and is an     *)
(* operator here, recomputed in every state exactly as React recomputes    *)
(* it after every state change.                                            *)
(*                                                                         *)
(* Representation.                                                         *)
(*  - A text is a sequence of one-character strings, <<"2","0","2","5">>,  *)
(*    so that split, parseInt, includes and the code-unit order of         *)
(*    Array.prototype.sort are computed, not assumed.                      *)
(*  - A Date is [valid, ts]: ts counts hours since the epoch (UTC); local  *)
(*    time is ts + tz for the zone offset tz of the browser.               *)
(*  - A number that the code divides is a fraction [n, d] with d > 0; a    *)
(*    value that went through toFixed(k) is the integer value * 10^k.      *)
(*  - CSV columns are record fields: 選手ID id, 名前 name, 背番号 number,  *)
(*    日付 date, 試合ID gameId, タイトル title, 先攻 away, 後攻 home,      *)
(*    スコア scoreText; batting 打席数 pa, 打数 ab, 安打 h, 二塁打 doubles,*)
(*    三塁打 triples, 本塁打 hr, 打点 rbi, 得点 runs, 三振 so, 四球 bb,    *)
(*    死球 hbp, 盗塁 sb, 犠飛 sf, 犠打 sac; pitching アウト数 outs,        *)
(*    安打 h, 失点 r, 自責点 er, 四球 bb, 死球 hbp, 三振 so, 勝数 win,     *)
(*    負数 loss, セーブ sv, S数 s, 球数 pitches.  A numeric cell that is   *)
(*    missing or empty reads as 0 through (row[..] || 0).                  *)
(***************************************************************************)
EXTENDS Integers, Sequences, FiniteSets, TLC

VARIABLES
    battingData,        \* useState([])  App.jsx:98
    pitchingData,       \* useState([])  App.jsx:99
    activeFilters,      \* App.jsx:107
    draftFilters,       \* App.jsx:113
    trendTarget,        \* 'team' | 'player'      App.jsx:118
    trendType,          \* 'batting' | 'pitching' App.jsx:119
    selectedPlayerId,   \* App.jsx:120
    trendPeriod,        \* 'game' | 'monthly' | 'quarterly' App.jsx:121
    comparisonMetric,   \* App.jsx:124
    comparisonMinPA,    \* App.jsx:125
    comparisonChartType, \* 'ranking' | 'scatter' | 'all' | 'chart-all' App.jsx:126
    scatterX,           \* App.jsx:127
    scatterY,           \* App.jsx:128
    comparisonDataType, \* 'batting' | 'pitching' App.jsx:130
    pending,            \* the effects React has scheduled and not yet run
    tz,                 \* the browser's zone offset in hours (environment)
    call,               \* the arguments and the result of a call of safeDiv
    inflight,           \* the uploads and sample loads that await their files
    storage             \* localStorage: bb_stats_batting, bb_stats_pitching

vars == <<battingData, pitchingData, activeFilters, draftFilters,
          trendTarget, trendType, selectedPlayerId, trendPeriod,
          comparisonMetric, comparisonMinPA, comparisonChartType,
          scatterX, scatterY, comparisonDataType, pending, tz, call,
          inflight, storage>>

(***************************************************************************)
(* Bounds of the model.                                                    *)
(***************************************************************************)
\* rows of a data set in the specification of the filter panel
MaxAppRows == 1
\* rows of a data set in the specifications of the derived statistics
MaxRows == 2

(***************************************************************************)
(* Texts.                                                                  *)
(***************************************************************************)
Digits == {"0", "1", "2", "3", "4", "5", "6", "7", "8", "9"}

LowerCase == <<"a", "b", "c", "d", "e", "f", "g", "h", "i", "j", "k", "l", "m",
               "n", "o", "p", "q", "r", "s", "t", "u", "v", "w", "x", "y", "z">>
UpperCase == <<"A", "B", "C", "D", "E", "F", "G", "H", "I", "J", "K", "L", "M",
               "N", "O", "P", "Q", "R", "S", "T", "U", "V", "W", "X", "Y", "Z">>
IndexIn(s, c) == CHOOSE i \in 1..Len(s) : s[i] = c

\* String.prototype.charCodeAt for the characters of the model's alphabet
\* (ASCII).
CharCode(c) ==
    CASE c \in Digits -> 48 + (CHOOSE n \in 0..9 : <<"0", "1", "2", "3", "4", "5", "6", "7", "8", "9">>[n + 1] = c)
      [] c = "-" -> 45
      [] c = "/" -> 47
      [] c = " " -> 32
      [] c = "(" -> 40
      [] c = "." -> 46
      [] c = "?" -> 63
      [] c \in {UpperCase[i] : i \in 1..26} -> 64 + IndexIn(UpperCase, c)
      [] c \in {LowerCase[i] : i \in 1..26} -> 96 + IndexIn(LowerCase, c)

DigitVal(c) == CharCode(c) - 48

\* The default comparison of Array.prototype.sort(): UTF-16 code units,
\* a proper prefix first.  TRUE iff s sorts strictly before t.
RECURSIVE StrLess(_, _)
StrLess(s, t) ==
    IF t = <<>> THEN FALSE
    ELSE IF s = <<>> THEN TRUE
    ELSE IF CharCode(Head(s)) # CharCode(Head(t))
         THEN CharCode(Head(s)) < CharCode(Head(t))
    ELSE StrLess(Tail(s), Tail(t))

\* The value of a text field of a row whose file has no such column: it is
\* no text (a text of the model is a sequence of characters).
Undefined == <<"undefined">>

\* ${v} in a template literal
Interpolate(v) ==
    IF v = Undefined THEN <<"u", "n", "d", "e", "f", "i", "n", "e", "d">> ELSE v


\* dateStr.split(/[-/]/): the pieces between the separators.
RECURSIVE SplitDate(_, _)
SplitDate(s, cur) ==
    IF s = <<>> THEN <<cur>>
    ELSE IF Head(s) \in {"-", "/"} THEN <<cur>> \o SplitDate(Tail(s), <<>>)
    ELSE SplitDate(Tail(s), Append(cur, Head(s)))

\* parseInt(part, 10): the value of the longest prefix of digits, NaN when
\* there is none.  (A part never holds a sign: "-" is a separator.)
RECURSIVE DigitPrefix(_, _)
DigitPrefix(s, acc) ==
    IF s = <<>> \/ Head(s) \notin Digits THEN acc
    ELSE DigitPrefix(Tail(s), acc * 10 + DigitVal(Head(s)))

parseInt(s) ==
    IF s = <<>> \/ Head(s) \notin Digits
    THEN [nan |-> TRUE, val |-> 0]
    ELSE [nan |-> FALSE, val |-> DigitPrefix(s, 0)]

\* n.toString().padStart(2, '0') for n >= 0
Dec(n) == <<CHOOSE c \in Digits : DigitVal(c) = n>>
RECURSIVE NumToStr(_)
NumToStr(n) == IF n < 10 THEN Dec(n) ELSE NumToStr(n \div 10) \o Dec(n % 10)
PadStart2(n) == IF n < 10 THEN <<"0">> \o Dec(n) ELSE NumToStr(n)

(***************************************************************************)
(* Dates: the proleptic Gregorian calendar of the JavaScript Date object.  *)
(***************************************************************************)
\* Days from 1970-01-01 to the first day of month m0 (0-based) of year y.
DaysFromCivil(y, m0, d) ==
    LET yy  == IF m0 < 2 THEN y - 1 ELSE y
        era == yy \div 400
        yoe == yy - era * 400
        mp  == (m0 + 10) % 12
        doy == (153 * mp + 2) \div 5 + d - 1
        doe == yoe * 365 + yoe \div 4 - yoe \div 100 + doy
    IN  era * 146097 + doe - 719468

\* The local calendar fields [year, month (0-based), day] of day number z.
CivilFromDays(z) ==
    LET zz  == z + 719468
        era == zz \div 146097
        doe == zz - era * 146097
        yoe == (doe - doe \div 1460 + doe \div 36524 - doe \div 146096) \div 365
        doy == doe - (365 * yoe + yoe \div 4 - yoe \div 100)
        mp  == (5 * doy + 2) \div 153
        d   == doy - (153 * mp + 2) \div 5 + 1
        m0  == (mp + 2) % 12
        y   == yoe + era * 400 + (IF m0 < 2 THEN 1 ELSE 0)
    IN  [year |-> y, month |-> m0, day |-> d]

\* new Date(year, monthIndex, day): local midnight; a year 0..99 means
\* 1900 + year; a month index or a day out of range rolls over.
NewDateYMD(year, monthIndex, day, zone) ==
    LET y0 == IF year \in 0..99 THEN 1900 + year ELSE year
        y  == y0 + monthIndex \div 12
        m0 == monthIndex % 12
    IN  [valid |-> TRUE,
         ts |-> (DaysFromCivil(y, m0, 1) + day - 1) * 24 - zone]

\* new Date(0)
EpochDate == [valid |-> TRUE, ts |-> 0]
InvalidDate == [valid |-> FALSE, ts |-> 0]

\* new Date(dateStr) for a text that is not three integer parts.  The
\* texts of the model that reach it hold no date in any format (letters
\* only, or a part that is not a number): Date.parse gives NaN.
NewDateStr(s) == InvalidDate

getFullYear(d, zone) == CivilFromDays((d.ts + zone) \div 24).year
getMonth(d, zone) == CivilFromDays((d.ts + zone) \div 24).month

\* An end date that is left on its own midnight.
SameDay(d) == d

\* end.setDate(end.getDate() + 1): the same local time on the next day.
AddOneDay(d) == [d EXCEPT !.ts = @ + 24]

\* parseDate, App.jsx:46-68
parseDate(dateStr, zone) ==
    IF dateStr = <<>> \/ dateStr = Undefined THEN EpochDate
    ELSE
      LET parts == SplitDate(dateStr, <<>>)
          year  == parseInt(parts[1])
          month == parseInt(parts[2])
          day   == parseInt(parts[3])
          d     == NewDateYMD(year.val, month.val - 1, day.val, zone)
          fallback == NewDateStr(dateStr)
      IN  IF Len(parts) = 3 /\ ~year.nan /\ ~month.nan /\ ~day.nan /\ d.valid
          THEN d
          ELSE IF fallback.valid THEN fallback
          ELSE EpochDate

(***************************************************************************)
(* Numbers.  JavaScript numbers that the code divides are kept as exact    *)
(* fractions; toFixed rounds the exact value half up (ECMAScript: "let n   *)
(* be an integer for which n / 10^f - x is as close to zero as possible;   *)
(* if there are two such n, pick the larger").  Within the bounds of the   *)
(* model no quotient lies close enough to a rounding boundary for the      *)
(* binary representation to change the digit.                              *)
(***************************************************************************)
Frac(n, d) == [n |-> n, d |-> d]
Num(n) == Frac(n, 1)
RAdd(a, b) == Frac(a.n * b.d + b.n * a.d, a.d * b.d)
RSub(a, b) == Frac(a.n * b.d - b.n * a.d, a.d * b.d)
RMul(a, b) == Frac(a.n * b.n, a.d * b.d)
\* a / b for b > 0
RDiv(a, b) == Frac(a.n * b.d, a.d * b.n)

\* a division that answers a zero divisor with a large number
safeDivLarge(a, b) == IF b.n = 0 THEN Frac(999, 1) ELSE Frac(a.n * b.d, a.d * b.n)

\* const safeDiv = (a, b) => b === 0 ? 0 : a / b;   App.jsx:44
safeDiv(a, b) == IF b.n = 0 THEN Num(0) ELSE RDiv(a, b)

Pow10(k) == CASE k = 0 -> 1 [] k = 1 -> 10 [] k = 2 -> 100 [] OTHER -> 1000

\* Number(x.toFixed(k)), as the integer x * 10^k rounded half up (away
\* from zero for a negative x, which toFixed rounds by magnitude).
toFixed(x, k) ==
    LET mag == IF x.n < 0 THEN -x.n ELSE x.n
        r   == (2 * mag * Pow10(k) + x.d) \div (2 * x.d)
    IN  IF x.n < 0 THEN -r ELSE r

(***************************************************************************)
(* JavaScript values.  A value is a finite number (an exact fraction in    *)
(* lowest terms), NaN, an infinity, a text or undefined; the operators     *)
(* convert their operands as the language does.  -0 is not told from 0     *)
(* (-0 === 0 holds).                                                       *)
(***************************************************************************)
Abs(n) == IF n < 0 THEN -n ELSE n

RECURSIVE Gcd(_, _)
Gcd(a, b) == IF b = 0 THEN a ELSE Gcd(b, a % b)

\* the fraction x (x.d # 0) in lowest terms with a positive denominator
Reduce(x) ==
    LET g == Gcd(Abs(x.n), Abs(x.d))
        sign == IF x.d < 0 THEN -1 ELSE 1
    IN  Frac(sign * (x.n \div g), sign * (x.d \div g))

JsNumber(x) == [t |-> "number", v |-> Reduce(x), s |-> <<>>]
JsNaN == [t |-> "NaN", v |-> Num(0), s |-> <<>>]
\* Infinity (sign 1) and -Infinity (sign -1)
JsInfinity(sign) == [t |-> "Infinity", v |-> Num(sign), s |-> <<>>]
JsString(s) == [t |-> "string", v |-> Num(0), s |-> s]
JsUndefined == [t |-> "undefined", v |-> Num(0), s |-> <<>>]

Sign(n) == IF n < 0 THEN -1 ELSE IF n > 0 THEN 1 ELSE 0

\* Number(x): the empty text is 0, a text of digits is its value and any
\* other text of the model is NaN (the texts of the model hold no sign,
\* point, exponent or radix prefix in a place that would make a numeral);
\* undefined is NaN.
ToNumber(x) ==
    CASE x.t = "string" ->
            IF x.s = <<>> THEN JsNumber(Num(0))
            ELSE IF \A i \in 1..Len(x.s) : x.s[i] \in Digits
                 THEN JsNumber(Num(DigitPrefix(x.s, 0)))
                 ELSE JsNaN
      [] x.t = "undefined" -> JsNaN
      [] OTHER -> x

\* String(x) of an integer, NaN, an infinity, a text or undefined
JsToString(x) ==
    CASE x.t = "string" -> x.s
      [] x.t = "undefined" -> <<"u", "n", "d", "e", "f", "i", "n", "e", "d">>
      [] x.t = "NaN" -> <<"N", "a", "N">>
      [] x.t = "Infinity" ->
            (IF x.v.n < 0 THEN <<"-">> ELSE <<>>)
               \o <<"I", "n", "f", "i", "n", "i", "t", "y">>
      [] OTHER ->
            (IF x.v.n < 0 THEN <<"-">> ELSE <<>>) \o NumToStr(Abs(x.v.n))

\* a / b
JsDiv(a, b) ==
    LET x == ToNumber(a)
        y == ToNumber(b)
    IN  CASE x.t = "NaN" \/ y.t = "NaN" -> JsNaN
          [] x.t = "Infinity" ->
                IF y.t = "Infinity" THEN JsNaN
                ELSE JsInfinity(IF y.v.n < 0 THEN -x.v.n ELSE x.v.n)
          [] y.t = "Infinity" -> JsNumber(Num(0))
          [] y.v.n = 0 ->
                IF x.v.n = 0 THEN JsNaN ELSE JsInfinity(Sign(x.v.n))
          [] OTHER -> JsNumber(RDiv(x.v, y.v))

\* a / b without the test of the divisor
UnguardedDiv(a, b) == JsDiv(a, b)

\* const safeDiv = (a, b) => b === 0 ? 0 : a / b;   App.jsx:44, for any
\* two values: b === 0 holds for the number 0 only.
safeDivValue(a, b) ==
    IF b.t = "number" /\ b.v.n = 0 THEN JsNumber(Num(0)) ELSE JsDiv(a, b)

\* x + y of two numbers (NaN and the infinities included)
NumberAdd(x, y) ==
    CASE x.t = "NaN" \/ y.t = "NaN" -> JsNaN
      [] x.t = "Infinity" ->
            IF y.t = "Infinity" /\ y.v.n # x.v.n THEN JsNaN ELSE x
      [] y.t = "Infinity" -> y
      [] OTHER -> JsNumber(RAdd(x.v, y.v))

\* -x of a number
NumberNeg(x) ==
    CASE x.t = "NaN" -> JsNaN
      [] x.t = "Infinity" -> JsInfinity(-x.v.n)
      [] OTHER -> JsNumber(Frac(-x.v.n, x.v.d))

\* a + b: the concatenation of the two texts when either is a text
JsAdd(a, b) ==
    IF a.t = "string" \/ b.t = "string"
    THEN JsString(JsToString(a) \o JsToString(b))
    ELSE NumberAdd(ToNumber(a), ToNumber(b))

\* a - b
JsSub(a, b) == NumberAdd(ToNumber(a), NumberNeg(ToNumber(b)))

\* a * b
JsMul(a, b) ==
    LET x == ToNumber(a)
        y == ToNumber(b)
    IN  CASE x.t = "NaN" \/ y.t = "NaN" -> JsNaN
          [] x.t = "Infinity" \/ y.t = "Infinity" ->
                IF x.v.n = 0 \/ y.v.n = 0 THEN JsNaN
                ELSE JsInfinity(Sign(x.v.n) * Sign(y.v.n))
          [] OTHER -> JsNumber(RMul(x.v, y.v))

\* x || 0: undefined, 0, NaN and the empty text are falsy
OrZero(x) ==
    IF \/ x.t \in {"undefined", "NaN"}
       \/ x.t = "number" /\ x.v.n = 0
       \/ x.t = "string" /\ x.s = <<>>
    THEN JsNumber(Num(0)) ELSE x

\* Number(x.toFixed(k)) of a number x: NaN and the infinities print as
\* their names and read back as themselves
NumberToFixed(x, k) ==
    IF x.t = "number" THEN JsNumber(Frac(toFixed(x.v, k), Pow10(k))) ELSE x

(***************************************************************************)
(* Sequences.                                                              *)
(***************************************************************************)
RECURSIVE SelectIdx(_, _)
\* the indices i <= n, in order, with flags[i]
SelectIdx(flags, n) ==
    IF n = 0 THEN <<>>
    ELSE IF flags[n] THEN Append(SelectIdx(flags, n - 1), n)
    ELSE SelectIdx(flags, n - 1)

\* Array.prototype.filter
Filter(s, Test(_)) ==
    LET idx == SelectIdx([i \in 1..Len(s) |-> Test(s[i])], Len(s))
    IN  [k \in 1..Len(idx) |-> s[idx[k]]]

\* Array.prototype.sort(compare), which is stable (ES2019), for a
\* consistent comparator; Before(a, b) is compare(a, b) < 0.  An element
\* lands after every element that sorts before it and after the earlier
\* elements that compare equal to it.
SortBy(s, Before(_, _)) ==
    LET pos(i) == 1 + Cardinality({j \in 1..Len(s) :
                        \/ Before(s[j], s[i])
                        \/ (j < i /\ ~Before(s[i], s[j]))})
    IN  [k \in 1..Len(s) |-> s[CHOOSE i \in 1..Len(s) : pos(i) = k]]

RECURSIVE SumSeq(_)
SumSeq(s) == IF s = <<>> THEN 0 ELSE Head(s) + SumSeq(Tail(s))

\* s.reduce((acc, x) => acc + F(x), 0)
SumOver(s, F(_)) == SumSeq([i \in 1..Len(s) |-> F(s[i])])

Range(s) == {s[i] : i \in 1..Len(s)}

\* the sequences over S of length at most n
SeqsUpTo(S, n) == UNION {[1..k -> S] : k \in 0..n}

(***************************************************************************)
(* The filter engine.                                                      *)
(***************************************************************************)
ToLower(c) ==
    IF c \in {UpperCase[i] : i \in 1..26} THEN LowerCase[IndexIn(UpperCase, c)] ELSE c
toLowerCase(s) == [i \in 1..Len(s) |-> ToLower(s[i])]

\* String.prototype.includes
includes(s, sub) ==
    \E i \in 0..(Len(s) - Len(sub)) : SubSeq(s, i + 1, i + Len(sub)) = sub

\* new RegExp(kw, 'i') throws on an unbalanced "(".
RegExpThrows(kw) == "(" \in Range(kw)

\* regex.test(text) for a pattern of letters and digits alone: a
\* case-insensitive search for the pattern as it stands.
RegExpTest(kw, text) == includes(toLowerCase(text), toLowerCase(kw))

\* A predicate that wants the keyword in the names of both teams.
filterRowBothTeams(row, filtersToUse, zone) ==
    LET rowDate == parseDate(row.date, zone)
        hasStart == filtersToUse.startDate # <<>>
        start == parseDate(filtersToUse.startDate, zone)
        hasEnd == filtersToUse.endDate # <<>>
        end == AddOneDay(parseDate(filtersToUse.endDate, zone))
        kw == filtersToUse.teamKeyword
        isMatch == RegExpTest(kw, row.away) /\ RegExpTest(kw, row.home)
    IN  /\ ~(hasStart /\ rowDate.ts < start.ts)
        /\ ~(hasEnd /\ rowDate.ts >= end.ts)
        /\ (kw # <<>> => isMatch)
        /\ ~(filtersToUse.category # "all" /\ row.title # filtersToUse.category)

\* The predicate of filterData, App.jsx:297-330
filterRow(row, filtersToUse, zone) ==
    LET rowDate == parseDate(row.date, zone)
        hasStart == filtersToUse.startDate # <<>>
        start == parseDate(filtersToUse.startDate, zone)
        hasEnd == filtersToUse.endDate # <<>>
        end == AddOneDay(parseDate(filtersToUse.endDate, zone))
        kw == filtersToUse.teamKeyword
        teamA == row.away
        teamB == row.home
        isMatch ==
            IF ~RegExpThrows(kw)
            THEN RegExpTest(kw, teamA) \/ RegExpTest(kw, teamB)
            ELSE \/ includes(toLowerCase(teamA), toLowerCase(kw))
                 \/ includes(toLowerCase(teamB), toLowerCase(kw))
    IN  /\ ~(hasStart /\ rowDate.ts < start.ts)
        /\ ~(hasEnd /\ rowDate.ts >= end.ts)
        /\ (kw # <<>> => isMatch)
        /\ ~(filtersToUse.category # "all" /\ row.title # filtersToUse.category)

\* filterData, App.jsx:296-331
filterData(data, filtersToUse, zone) ==
    Filter(data, LAMBDA row : filterRow(row, filtersToUse, zone))

\* App.jsx:333-334
filteredBattingData == filterData(battingData, activeFilters, tz)
filteredPitchingData == filterData(pitchingData, activeFilters, tz)

(***************************************************************************)
(* The aggregation engine.                                                 *)
(***************************************************************************)
\* Grouping by the name alone.
NameKey(row) == row.name

\* row['選手ID'] || row['名前']  (an empty text is falsy)
PlayerKey(row) == IF row.id # "" THEN row.id ELSE row.name

\* the property names of an object in insertion order, and the slot of one
\* (keys are ordinary texts: not integer-like, which Object.values lists
\* first in numeric order, and not names of Object.prototype properties)
KeyIndex(stats, id) == CHOOSE i \in 1..Len(stats) : stats[i].key = id
HasKey(stats, id) == \E i \in 1..Len(stats) : stats[i].key = id

\* App.jsx:343-347
NewBattingStats(row) ==
    [id |-> row.id, name |-> row.name, number |-> row.number,
     games |-> 0, pa |-> 0, ab |-> 0, h |-> 0, doubles |-> 0, triples |-> 0,
     hr |-> 0, rbi |-> 0, runs |-> 0, so |-> 0, bb |-> 0, hbp |-> 0, sb |-> 0,
     sf |-> 0, sac |-> 0]

\* an accumulation that keeps the line of a player's first row
AddBattingRowFirstOnly(s, row) ==
    IF s.games > 0 THEN [s EXCEPT !.games = @ + 1]
    ELSE [s EXCEPT !.games = @ + 1, !.pa = @ + row.pa, !.ab = @ + row.ab,
                   !.h = @ + row.h, !.doubles = @ + row.doubles,
                   !.triples = @ + row.triples, !.hr = @ + row.hr,
                   !.rbi = @ + row.rbi, !.runs = @ + row.runs, !.so = @ + row.so,
                   !.bb = @ + row.bb, !.hbp = @ + row.hbp, !.sb = @ + row.sb,
                   !.sf = @ + row.sf, !.sac = @ + row.sac]

\* App.jsx:349-364
AddBattingRow(s, row) ==
    [s EXCEPT !.games = @ + 1, !.pa = @ + row.pa, !.ab = @ + row.ab,
              !.h = @ + row.h, !.doubles = @ + row.doubles,
              !.triples = @ + row.triples, !.hr = @ + row.hr,
              !.rbi = @ + row.rbi, !.runs = @ + row.runs, !.so = @ + row.so,
              !.bb = @ + row.bb, !.hbp = @ + row.hbp, !.sb = @ + row.sb,
              !.sf = @ + row.sf, !.sac = @ + row.sac]

\* filteredBattingData.forEach(...), App.jsx:340-365: the stats object
\* after the first n rows, as its entries [key, s] in insertion order.
RECURSIVE BattingStats(_, _)
BattingStats(rows, n) ==
    IF n = 0 THEN <<>>
    ELSE LET prev == BattingStats(rows, n - 1)
             row  == rows[n]
             id   == PlayerKey(row)
             st   == IF HasKey(prev, id) THEN prev
                     ELSE Append(prev, [key |-> id, s |-> NewBattingStats(row)])
             i    == KeyIndex(st, id)
         IN  [st EXCEPT ![i].s = AddBattingRow(@, row)]

\* The rates of one group with the ops formed from the rounded obp and slg.
BattingRatesRoundedOps(s) ==
    LET avg == safeDiv(Num(s.h), Num(s.ab))
        obp == safeDiv(Num(s.h + s.bb + s.hbp), Num(s.ab + s.bb + s.hbp + s.sf))
        singles == s.h - s.doubles - s.triples - s.hr
        totalBases == singles + (s.doubles * 2) + (s.triples * 3) + (s.hr * 4)
        slg == safeDiv(Num(totalBases), Num(s.ab))
        ops == Frac(toFixed(obp, 3) + toFixed(slg, 3), 1000)
        bbK == safeDiv(Num(s.bb + s.hbp), Num(s.so))
        isoD == RSub(obp, avg)
    IN  [avg |-> avg, obp |-> obp, slg |-> slg, ops |-> ops, bbK |-> bbK,
         isoD |-> isoD]

\* The derived rates of one group, App.jsx:367-385, before rounding.
BattingRates(s) ==
    LET avg == safeDiv(Num(s.h), Num(s.ab))
        obp == safeDiv(Num(s.h + s.bb + s.hbp), Num(s.ab + s.bb + s.hbp + s.sf))
        singles == s.h - s.doubles - s.triples - s.hr
        totalBases == singles + (s.doubles * 2) + (s.triples * 3) + (s.hr * 4)
        slg == safeDiv(Num(totalBases), Num(s.ab))
        ops == RAdd(obp, slg)
        bbK == safeDiv(Num(s.bb + s.hbp), Num(s.so))
        isoD == RSub(obp, avg)
    IN  [avg |-> avg, obp |-> obp, slg |-> slg, ops |-> ops, bbK |-> bbK,
         isoD |-> isoD]

\* The summary of one group, App.jsx:377-385: avg, obp, slg, ops and isoD
\* in thousandths, bbK in hundredths.
BattingSummary(s) ==
    LET r == BattingRates(s)
    IN  [id |-> s.id, name |-> s.name, number |-> s.number,
         games |-> s.games, pa |-> s.pa, ab |-> s.ab, h |-> s.h,
         doubles |-> s.doubles, triples |-> s.triples, hr |-> s.hr,
         rbi |-> s.rbi, runs |-> s.runs, so |-> s.so, bb |-> s.bb,
         hbp |-> s.hbp, sb |-> s.sb, sf |-> s.sf, sac |-> s.sac,
         avg |-> toFixed(r.avg, 3),
         obp |-> toFixed(r.obp, 3),
         slg |-> toFixed(r.slg, 3),
         ops |-> toFixed(r.ops, 3),
         bbK |-> toFixed(r.bbK, 2),
         isoD |-> toFixed(r.isoD, 3)]

\* The summaries in the order of the groups' first rows.
AggregateBattingUnsorted(rows) ==
    LET stats == BattingStats(rows, Len(rows))
    IN  [i \in 1..Len(stats) |-> BattingSummary(stats[i].s)]

\* aggregatedBatting as a function of the filtered rows, App.jsx:338-387
AggregateBatting(rows) ==
    LET stats == BattingStats(rows, Len(rows))
        list  == [i \in 1..Len(stats) |-> BattingSummary(stats[i].s)]
    IN  SortBy(list, LAMBDA a, b : b.avg - a.avg < 0)

aggregatedBatting == AggregateBatting(filteredBattingData)

\* App.jsx:394-397
NewPitchingStats(row) ==
    [id |-> row.id, name |-> row.name, number |-> row.number,
     games |-> 0, outs |-> 0, h |-> 0, r |-> 0, er |-> 0, bb |-> 0, hbp |-> 0,
     so |-> 0, win |-> 0, loss |-> 0, sv |-> 0]

\* App.jsx:399-410
AddPitchingRow(s, row) ==
    [s EXCEPT !.games = @ + 1, !.outs = @ + row.outs, !.h = @ + row.h,
              !.r = @ + row.r, !.er = @ + row.er, !.bb = @ + row.bb,
              !.hbp = @ + row.hbp, !.so = @ + row.so, !.win = @ + row.win,
              !.loss = @ + row.loss, !.sv = @ + row.sv]

\* filteredPitchingData.forEach(...), App.jsx:391-411
RECURSIVE PitchingStats(_, _)
PitchingStats(rows, n) ==
    IF n = 0 THEN <<>>
    ELSE LET prev == PitchingStats(rows, n - 1)
             row  == rows[n]
             id   == PlayerKey(row)
             st   == IF HasKey(prev, id) THEN prev
                     ELSE Append(prev, [key |-> id, s |-> NewPitchingStats(row)])
             i    == KeyIndex(st, id)
         IN  [st EXCEPT ![i].s = AddPitchingRow(@, row)]

\* an innings text that always carries the outs within the inning
DisplayInningsWithZero(outs) ==
    NumToStr(outs \div 3) \o <<".">> \o Dec(outs % 3)

\* `${Math.floor(outs / 3)}${outs % 3 > 0 ? '.' + (outs % 3) : ''}`
DisplayInnings(outs) ==
    NumToStr(outs \div 3) \o (IF outs % 3 > 0 THEN <<".">> \o Dec(outs % 3) ELSE <<>>)

\* the summary on the nine-inning scale
PitchingSummaryNineInnings(s) ==
    LET era  == safeDiv(Num(s.er * 9), Frac(s.outs, 3))
        whip == safeDiv(Num(s.bb + s.hbp + s.h), Frac(s.outs, 3))
        kbb  == safeDiv(Num(s.so), Num(s.bb))
    IN  [id |-> s.id, name |-> s.name, number |-> s.number,
         games |-> s.games, outs |-> s.outs, h |-> s.h, r |-> s.r,
         er |-> s.er, bb |-> s.bb, hbp |-> s.hbp, so |-> s.so,
         win |-> s.win, loss |-> s.loss, sv |-> s.sv,
         displayInnings |-> DisplayInnings(s.outs),
         era |-> toFixed(era, 2),
         whip |-> toFixed(whip, 2),
         kbb |-> toFixed(kbb, 2),
         inningsVal |-> Frac(s.outs, 3)]

\* App.jsx:413-426: era, whip and kbb in hundredths; inningsVal exact.
PitchingSummary(s) ==
    LET era  == safeDiv(Num(s.er * 7), Frac(s.outs, 3))
        whip == safeDiv(Num(s.bb + s.hbp + s.h), Frac(s.outs, 3))
        kbb  == safeDiv(Num(s.so), Num(s.bb))
    IN  [id |-> s.id, name |-> s.name, number |-> s.number,
         games |-> s.games, outs |-> s.outs, h |-> s.h, r |-> s.r,
         er |-> s.er, bb |-> s.bb, hbp |-> s.hbp, so |-> s.so,
         win |-> s.win, loss |-> s.loss, sv |-> s.sv,
         displayInnings |-> DisplayInnings(s.outs),
         era |-> toFixed(era, 2),
         whip |-> toFixed(whip, 2),
         kbb |-> toFixed(kbb, 2),
         inningsVal |-> Frac(s.outs, 3)]

\* aggregatedPitching as a function of the filtered rows, App.jsx:389-428
AggregatePitching(rows) ==
    LET stats == PitchingStats(rows, Len(rows))
        list  == [i \in 1..Len(stats) |-> PitchingSummary(stats[i].s)]
    IN  SortBy(list, LAMBDA a, b : a.era - b.era < 0)

aggregatedPitching == AggregatePitching(filteredPitchingData)

(***************************************************************************)
(* The aggregations over rows whose numeric cells are any value the        *)
(* decoder leaves in them: a number, a text that is not a numeral (kept    *)
(* as text, App.jsx:33-36), the empty text of an empty cell, or undefined  *)
(* when the file has no such column.                                       *)
(***************************************************************************)
\* App.jsx:343-347
NewBattingCells(row) ==
    LET z == JsNumber(Num(0))
    IN  [id |-> row.id, name |-> row.name, number |-> row.number,
         games |-> z, pa |-> z, ab |-> z, h |-> z, doubles |-> z, triples |-> z,
         hr |-> z, rbi |-> z, runs |-> z, so |-> z, bb |-> z, hbp |-> z,
         sb |-> z, sf |-> z, sac |-> z]

\* App.jsx:349-364
AddBattingCells(s, row) ==
    [s EXCEPT !.games = JsAdd(@, JsNumber(Num(1))),
              !.pa = JsAdd(@, OrZero(row.pa)), !.ab = JsAdd(@, OrZero(row.ab)),
              !.h = JsAdd(@, OrZero(row.h)),
              !.doubles = JsAdd(@, OrZero(row.doubles)),
              !.triples = JsAdd(@, OrZero(row.triples)),
              !.hr = JsAdd(@, OrZero(row.hr)), !.rbi = JsAdd(@, OrZero(row.rbi)),
              !.runs = JsAdd(@, OrZero(row.runs)), !.so = JsAdd(@, OrZero(row.so)),
              !.bb = JsAdd(@, OrZero(row.bb)), !.hbp = JsAdd(@, OrZero(row.hbp)),
              !.sb = JsAdd(@, OrZero(row.sb)), !.sf = JsAdd(@, OrZero(row.sf)),
              !.sac = JsAdd(@, OrZero(row.sac))]

\* filteredBattingData.forEach(...), App.jsx:340-365
RECURSIVE BattingCellStats(_, _)
BattingCellStats(rows, n) ==
    IF n = 0 THEN <<>>
    ELSE LET prev == BattingCellStats(rows, n - 1)
             row  == rows[n]
             id   == PlayerKey(row)
             st   == IF HasKey(prev, id) THEN prev
                     ELSE Append(prev, [key |-> id, s |-> NewBattingCells(row)])
             i    == KeyIndex(st, id)
         IN  [st EXCEPT ![i].s = AddBattingCells(@, row)]

\* The rates of one group, App.jsx:368-384
BattingCellRates(s) ==
    LET n(k) == JsNumber(Num(k))
        avg == safeDivValue(s.h, s.ab)
        obp == safeDivValue(JsAdd(JsAdd(s.h, s.bb), s.hbp),
                            JsAdd(JsAdd(JsAdd(s.ab, s.bb), s.hbp), s.sf))
        singles == JsSub(JsSub(JsSub(s.h, s.doubles), s.triples), s.hr)
        totalBases == JsAdd(JsAdd(JsAdd(singles, JsMul(s.doubles, n(2))),
                                  JsMul(s.triples, n(3))), JsMul(s.hr, n(4)))
        slg == safeDivValue(totalBases, s.ab)
        ops == JsAdd(obp, slg)
        bbK == safeDivValue(JsAdd(s.bb, s.hbp), s.so)
        isoD == JsSub(obp, avg)
    IN  [avg |-> NumberToFixed(avg, 3), obp |-> NumberToFixed(obp, 3),
         slg |-> NumberToFixed(slg, 3), ops |-> NumberToFixed(ops, 3),
         bbK |-> NumberToFixed(bbK, 2), isoD |-> NumberToFixed(isoD, 3)]

\* Object.values(stats).map(...), App.jsx:339-385: the rates of every
\* group, in the order of the groups' first rows (before the sort)
BattingCellSummaries(rows) ==
    LET stats == BattingCellStats(rows, Len(rows))
    IN  [i \in 1..Len(stats) |-> BattingCellRates(stats[i].s)]

\* App.jsx:394-397
NewPitchingCells(row) ==
    LET z == JsNumber(Num(0))
    IN  [id |-> row.id, name |-> row.name, number |-> row.number,
         games |-> z, outs |-> z, h |-> z, r |-> z, er |-> z, bb |-> z,
         hbp |-> z, so |-> z, win |-> z, loss |-> z, sv |-> z]

\* App.jsx:399-410
AddPitchingCells(s, row) ==
    [s EXCEPT !.games = JsAdd(@, JsNumber(Num(1))),
              !.outs = JsAdd(@, OrZero(row.outs)), !.h = JsAdd(@, OrZero(row.h)),
              !.r = JsAdd(@, OrZero(row.r)), !.er = JsAdd(@, OrZero(row.er)),
              !.bb = JsAdd(@, OrZero(row.bb)), !.hbp = JsAdd(@, OrZero(row.hbp)),
              !.so = JsAdd(@, OrZero(row.so)), !.win = JsAdd(@, OrZero(row.win)),
              !.loss = JsAdd(@, OrZero(row.loss)), !.sv = JsAdd(@, OrZero(row.sv))]

\* filteredPitchingData.forEach(...), App.jsx:391-411
RECURSIVE PitchingCellStats(_, _)
PitchingCellStats(rows, n) ==
    IF n = 0 THEN <<>>
    ELSE LET prev == PitchingCellStats(rows, n - 1)
             row  == rows[n]
             id   == PlayerKey(row)
             st   == IF HasKey(prev, id) THEN prev
                     ELSE Append(prev, [key |-> id, s |-> NewPitchingCells(row)])
             i    == KeyIndex(st, id)
         IN  [st EXCEPT ![i].s = AddPitchingCells(@, row)]

\* The rates of one group, App.jsx:415-425
PitchingCellRates(s) ==
    LET innings == JsDiv(s.outs, JsNumber(Num(3)))
        era  == safeDivValue(JsMul(s.er, JsNumber(Num(7))), innings)
        whip == safeDivValue(JsAdd(JsAdd(s.bb, s.hbp), s.h), innings)
        kbb  == safeDivValue(s.so, s.bb)
    IN  [era |-> NumberToFixed(era, 2), whip |-> NumberToFixed(whip, 2),
         kbb |-> NumberToFixed(kbb, 2), inningsVal |-> innings]

\* Object.values(stats).map(...), App.jsx:390-426, before the sort
PitchingCellSummaries(rows) ==
    LET stats == PitchingCellStats(rows, Len(rows))
    IN  [i \in 1..Len(stats) |-> PitchingCellRates(stats[i].s)]

(***************************************************************************)
(* Trend / period bucketing.                                               *)
(***************************************************************************)
\* The two home-team aliases 'ありんこ' and 'アントス' and the placeholder
\* '不明' of the source, in the model's alphabet.
HomeAlias1 == <<"a", "r", "i">>
HomeAlias2 == <<"a", "n", "t">>
Unknown == <<"?">>

\* App.jsx:503-506 (and 596-599, 716-719, 800-803)
Opponent(row) ==
    LET homeTeam == row.home
        awayTeam == row.away
        isHomeArinko == includes(homeTeam, HomeAlias1) \/ includes(homeTeam, HomeAlias2)
    IN  IF isHomeArinko THEN awayTeam ELSE homeTeam

\* `${year}-${(month + 1).toString().padStart(2, '0')}`
MonthKey(d, zone) ==
    NumToStr(getFullYear(d, zone)) \o <<"-">> \o PadStart2(getMonth(d, zone) + 1)

\* a quarter key computed from the month number 1..12
QuarterKeyOfMonthNumber(d, zone) ==
    NumToStr(getFullYear(d, zone)) \o <<"-", "Q">>
        \o NumToStr((getMonth(d, zone) + 1) \div 3 + 1)

\* `${year}-Q${Math.floor(month / 3) + 1}`
QuarterKey(d, zone) ==
    NumToStr(getFullYear(d, zone)) \o <<"-", "Q">> \o NumToStr(getMonth(d, zone) \div 3 + 1)

Null == [null |-> TRUE, key |-> <<>>]
Key(k) == [null |-> FALSE, key |-> k]
\* !key: null, undefined, or the empty text
Falsy(k) == k.null \/ k.key = <<>> \/ k.key = Undefined

\* getKey of the player trends, App.jsx:652-668 and 738-754
playerGetKey(row, period, zone) ==
    LET d == parseDate(row.date, zone)
    IN  IF ~d.valid THEN Null
        ELSE CASE period = "game" -> Key(row.date)
               [] period = "quarterly" -> Key(QuarterKey(d, zone))
               [] OTHER -> Key(MonthKey(d, zone))

\* getKey of teamTrendData, App.jsx:495-515
teamGetKey(row, period, zone) ==
    LET d == parseDate(row.date, zone)
        opponent == Opponent(row)
    IN  IF ~d.valid THEN Null
        ELSE CASE period = "game" ->
                    Key(Interpolate(row.date) \o <<" ", "v", "s", " ">>
                        \o (IF opponent # <<>> THEN opponent ELSE Unknown))
               [] period = "quarterly" -> Key(QuarterKey(d, zone))
               [] OTHER -> Key(MonthKey(d, zone))

\* the key of the monthly trends, App.jsx:447-449 and 475-477
monthlyGetKey(row, zone) ==
    LET d == parseDate(row.date, zone)
    IN  IF ~d.valid THEN Null ELSE Key(MonthKey(d, zone))

\* The property names of `grouped` / `periods`: the keys of the rows that
\* are not skipped by `if (!key) return`.
GroupKeys(rows, GetKey(_)) ==
    {GetKey(rows[i]).key : i \in {j \in 1..Len(rows) : ~Falsy(GetKey(rows[j]))}}

\* the rows collected under one key, in row order
RowsOfKey(rows, GetKey(_), key) ==
    Filter(rows, LAMBDA r : ~Falsy(GetKey(r)) /\ GetKey(r).key = key)

\* Object.keys(grouped).sort(): ascending in code-unit order
SortedKeys(keys) ==
    [k \in 1..Cardinality(keys) |->
        CHOOSE x \in keys : Cardinality({y \in keys : StrLess(y, x)}) = k - 1]

\* The weight of a character in the root collation that localeCompare
\* uses: white space, punctuation, digits, then letters without regard to
\* case.
CollWeight(c) ==
    CASE c = " " -> 1 [] c = "-" -> 2 [] c = "/" -> 3 [] c = "?" -> 4
      [] c \in Digits -> 10 + DigitVal(c)
      [] c = "(" -> 5 [] c = "." -> 6
      [] OTHER -> CharCode(ToLower(c))

RECURSIVE PrimaryLess(_, _)
PrimaryLess(s, t) ==
    IF t = <<>> THEN FALSE
    ELSE IF s = <<>> THEN TRUE
    ELSE IF CollWeight(Head(s)) # CollWeight(Head(t))
         THEN CollWeight(Head(s)) < CollWeight(Head(t))
    ELSE PrimaryLess(Tail(s), Tail(t))

RECURSIVE CaseLess(_, _)
\* for texts equal up to case: at the first difference the lower-case one
CaseLess(s, t) ==
    IF s = <<>> \/ t = <<>> THEN FALSE
    ELSE IF Head(s) # Head(t) THEN ToLower(Head(s)) = Head(s)
    ELSE CaseLess(Tail(s), Tail(t))

\* a.localeCompare(b) < 0
LocaleLess(s, t) ==
    \/ PrimaryLess(s, t)
    \/ (~PrimaryLess(t, s) /\ s # t /\ CaseLess(s, t))

\* Object.values(periods).sort((a, b) => a.key.localeCompare(b.key))
LocaleSortedKeys(keys) ==
    [k \in 1..Cardinality(keys) |->
        CHOOSE x \in keys : Cardinality({y \in keys : LocaleLess(y, x)}) = k - 1]

----------------------------------------------------------------------------
\* The player's cumulative batting trend, App.jsx:649-734.

\* periodRows.reduce(...), App.jsx:686-698
BattingPeriodStats(periodRows) ==
    [ab |-> SumOver(periodRows, LAMBDA r : r.ab),
     h |-> SumOver(periodRows, LAMBDA r : r.h),
     bb |-> SumOver(periodRows, LAMBDA r : r.bb),
     hbp |-> SumOver(periodRows, LAMBDA r : r.hbp),
     sf |-> SumOver(periodRows, LAMBDA r : r.sf),
     doubles |-> SumOver(periodRows, LAMBDA r : r.doubles),
     triples |-> SumOver(periodRows, LAMBDA r : r.triples),
     hr |-> SumOver(periodRows, LAMBDA r : r.hr),
     rbi |-> SumOver(periodRows, LAMBDA r : r.rbi),
     so |-> SumOver(periodRows, LAMBDA r : r.so)]

\* let cumulative = {...}, App.jsx:682
BattingCumulativeZero ==
    [ab |-> 0, h |-> 0, bb |-> 0, hbp |-> 0, sf |-> 0, doubles |-> 0,
     triples |-> 0, hr |-> 0, rbi |-> 0, sb |-> 0, so |-> 0]

\* A running total that starts again at every period.
BattingAccumulateReset(cumulative, periodStats) ==
    [BattingCumulativeZero EXCEPT !.ab = periodStats.ab, !.h = periodStats.h,
                       !.bb = periodStats.bb, !.hbp = periodStats.hbp,
                       !.sf = periodStats.sf,
                       !.doubles = periodStats.doubles,
                       !.triples = periodStats.triples,
                       !.hr = periodStats.hr, !.rbi = periodStats.rbi,
                       !.so = periodStats.so]

\* Object.keys(periodStats).forEach(k => cumulative[k] += periodStats[k]),
\* App.jsx:700-702
BattingAccumulate(cumulative, periodStats) ==
    [cumulative EXCEPT !.ab = @ + periodStats.ab, !.h = @ + periodStats.h,
                       !.bb = @ + periodStats.bb, !.hbp = @ + periodStats.hbp,
                       !.sf = @ + periodStats.sf,
                       !.doubles = @ + periodStats.doubles,
                       !.triples = @ + periodStats.triples,
                       !.hr = @ + periodStats.hr, !.rbi = @ + periodStats.rbi,
                       !.so = @ + periodStats.so]

\* A bucket whose rates are those of its own period.
BattingBucketOfPeriod(key, periodRows, periodStats, cumulative, period) ==
    LET pa == periodStats.ab + periodStats.bb + periodStats.hbp + periodStats.sf
        tb == periodStats.h + periodStats.doubles + 2 * periodStats.triples
              + 3 * periodStats.hr
        obp == safeDiv(Num(periodStats.h + periodStats.bb + periodStats.hbp), Num(pa))
        slg == safeDiv(Num(tb), Num(periodStats.ab))
    IN  [periodKey |-> key,
         opponent |-> IF period = "game" /\ Len(periodRows) > 0
                      THEN Opponent(periodRows[1]) ELSE <<>>,
         avg |-> toFixed(safeDiv(Num(periodStats.h), Num(periodStats.ab)), 3),
         ops |-> toFixed(RAdd(obp, slg), 3),
         slg |-> toFixed(slg, 3),
         obp |-> toFixed(obp, 3),
         bbRate |-> toFixed(RMul(safeDiv(Num(periodStats.bb + periodStats.hbp), Num(pa)),
                                 Num(100)), 1),
         soRate |-> toFixed(RMul(safeDiv(Num(periodStats.so), Num(pa)), Num(100)), 1),
         ab |-> periodStats.ab, h |-> periodStats.h, bb |-> periodStats.bb,
         hbp |-> periodStats.hbp, sf |-> periodStats.sf,
         doubles |-> periodStats.doubles, triples |-> periodStats.triples,
         hr |-> periodStats.hr, rbi |-> periodStats.rbi, so |-> periodStats.so]

\* the bucket returned for one key, App.jsx:704-732, from the value of
\* `cumulative` after this period was added
BattingBucket(key, periodRows, periodStats, cumulative, period) ==
    LET avg == safeDiv(Num(cumulative.h), Num(cumulative.ab))
        obp == safeDiv(Num(cumulative.h + cumulative.bb + cumulative.hbp),
                       Num(cumulative.ab + cumulative.bb + cumulative.hbp + cumulative.sf))
        singles == cumulative.h - cumulative.doubles - cumulative.triples - cumulative.hr
        tb == singles + cumulative.doubles * 2 + cumulative.triples * 3 + cumulative.hr * 4
        pa == cumulative.ab + cumulative.bb + cumulative.hbp + cumulative.sf
        soRate == RMul(safeDiv(Num(cumulative.so), Num(pa)), Num(100))
        bbRate == RMul(safeDiv(Num(cumulative.bb + cumulative.hbp), Num(pa)), Num(100))
        slg == safeDiv(Num(tb), Num(cumulative.ab))
        opponent == IF period = "game" /\ Len(periodRows) > 0
                    THEN Opponent(periodRows[1]) ELSE <<>>
    IN  [periodKey |-> key, opponent |-> opponent,
         avg |-> toFixed(avg, 3),
         ops |-> toFixed(RAdd(obp, slg), 3),
         slg |-> toFixed(slg, 3),
         obp |-> toFixed(obp, 3),
         bbRate |-> toFixed(bbRate, 1),
         soRate |-> toFixed(soRate, 1),
         ab |-> periodStats.ab, h |-> periodStats.h, bb |-> periodStats.bb,
         hbp |-> periodStats.hbp, sf |-> periodStats.sf,
         doubles |-> periodStats.doubles, triples |-> periodStats.triples,
         hr |-> periodStats.hr, rbi |-> periodStats.rbi, so |-> periodStats.so]

\* sortedKeys.map(...), App.jsx:684-733: the value of `cumulative` after
\* the callback ran for the first k keys
RECURSIVE BattingCumulative(_, _, _, _, _)
BattingCumulative(rows, sortedKeys, k, period, zone) ==
    IF k = 0 THEN BattingCumulativeZero
    ELSE BattingAccumulate(
            BattingCumulative(rows, sortedKeys, k - 1, period, zone),
            BattingPeriodStats(RowsOfKey(rows,
                LAMBDA r : playerGetKey(r, period, zone), sortedKeys[k])))

PlayerBattingTrend(data, playerId, target, type, period, zone) ==
    IF playerId = "" \/ target # "player" \/ type # "batting" THEN <<>>
    ELSE
      LET rows == Filter(data, LAMBDA r : PlayerKey(r) = playerId)
          sortedKeys ==
              SortedKeys(GroupKeys(rows, LAMBDA r : playerGetKey(r, period, zone)))
      IN  [k \in 1..Len(sortedKeys) |->
             LET periodRows == RowsOfKey(rows,
                     LAMBDA r : playerGetKey(r, period, zone), sortedKeys[k])
             IN  BattingBucket(sortedKeys[k], periodRows,
                               BattingPeriodStats(periodRows),
                               BattingCumulative(rows, sortedKeys, k, period, zone),
                               period)]

playerBattingTrendData ==
    PlayerBattingTrend(filteredBattingData, selectedPlayerId, trendTarget,
                       trendType, trendPeriod, tz)

----------------------------------------------------------------------------
\* The player's cumulative pitching trend, App.jsx:736-821.

\* periodRows.reduce(...), App.jsx:772-782
PitchingPeriodStats(periodRows) ==
    [outs |-> SumOver(periodRows, LAMBDA r : r.outs),
     er |-> SumOver(periodRows, LAMBDA r : r.er),
     bb |-> SumOver(periodRows, LAMBDA r : r.bb),
     hbp |-> SumOver(periodRows, LAMBDA r : r.hbp),
     h |-> SumOver(periodRows, LAMBDA r : r.h),
     so |-> SumOver(periodRows, LAMBDA r : r.so),
     pitches |-> SumOver(periodRows, LAMBDA r : r.pitches),
     strikes |-> SumOver(periodRows, LAMBDA r : r.s)]

\* let cumulative = {...}, App.jsx:768
PitchingCumulativeZero ==
    [outs |-> 0, er |-> 0, bb |-> 0, hbp |-> 0, h |-> 0, so |-> 0]

\* A running total that starts again at every period.
PitchingAccumulateReset(cumulative, periodStats) ==
    [outs |-> periodStats.outs, er |-> periodStats.er, bb |-> periodStats.bb,
     hbp |-> periodStats.hbp, h |-> periodStats.h, so |-> periodStats.so]

\* Object.keys(cumulative).forEach(k => cumulative[k] += periodStats[k]),
\* App.jsx:784-786
PitchingAccumulate(cumulative, periodStats) ==
    [cumulative EXCEPT !.outs = @ + periodStats.outs, !.er = @ + periodStats.er,
                       !.bb = @ + periodStats.bb, !.hbp = @ + periodStats.hbp,
                       !.h = @ + periodStats.h, !.so = @ + periodStats.so]

\* the bucket returned for one key, App.jsx:788-819
PitchingBucket(key, periodRows, periodStats, cumulative, period) ==
    LET era == safeDiv(Num(cumulative.er * 7), Frac(cumulative.outs, 3))
        whip == safeDiv(Num(cumulative.bb + cumulative.hbp + cumulative.h),
                        Frac(cumulative.outs, 3))
        kbb == safeDiv(Num(cumulative.so), Num(cumulative.bb))
        kPer7 == safeDiv(Num(cumulative.so * 7), Frac(cumulative.outs, 3))
        bbPer7 == safeDiv(Num((cumulative.bb + cumulative.hbp) * 7),
                          Frac(cumulative.outs, 3))
        innings == Frac(periodStats.outs, 3)
        strikeRate == RMul(safeDiv(Num(periodStats.strikes), Num(periodStats.pitches)),
                           Num(100))
        opponent == IF period = "game" /\ Len(periodRows) > 0
                    THEN Opponent(periodRows[1]) ELSE <<>>
    IN  [periodKey |-> key, opponent |-> opponent,
         era |-> toFixed(era, 2),
         whip |-> toFixed(whip, 2),
         kbb |-> toFixed(kbb, 2),
         innings |-> toFixed(innings, 1),
         kPer7 |-> toFixed(kPer7, 2),
         bbPer7 |-> toFixed(bbPer7, 2),
         strikeRate |-> toFixed(strikeRate, 1),
         bb |-> periodStats.bb, hbp |-> periodStats.hbp,
         pitches |-> periodStats.pitches]

\* sortedKeys.map(...), App.jsx:770-820: the value of `cumulative` after
\* the callback ran for the first k keys
RECURSIVE PitchingCumulative(_, _, _, _, _)
PitchingCumulative(rows, sortedKeys, k, period, zone) ==
    IF k = 0 THEN PitchingCumulativeZero
    ELSE PitchingAccumulate(
            PitchingCumulative(rows, sortedKeys, k - 1, period, zone),
            PitchingPeriodStats(RowsOfKey(rows,
                LAMBDA r : playerGetKey(r, period, zone), sortedKeys[k])))

PlayerPitchingTrend(data, playerId, target, type, period, zone) ==
    IF playerId = "" \/ target # "player" \/ type # "pitching" THEN <<>>
    ELSE
      LET rows == Filter(data, LAMBDA r : PlayerKey(r) = playerId)
          sortedKeys ==
              SortedKeys(GroupKeys(rows, LAMBDA r : playerGetKey(r, period, zone)))
      IN  [k \in 1..Len(sortedKeys) |->
             LET periodRows == RowsOfKey(rows,
                     LAMBDA r : playerGetKey(r, period, zone), sortedKeys[k])
             IN  PitchingBucket(sortedKeys[k], periodRows,
                                PitchingPeriodStats(periodRows),
                                PitchingCumulative(rows, sortedKeys, k, period, zone),
                                period)]

playerPitchingTrendData ==
    PlayerPitchingTrend(filteredPitchingData, selectedPlayerId, trendTarget,
                        trendType, trendPeriod, tz)

----------------------------------------------------------------------------
\* The snapshot trends: every bucket from its own rows.

\* one bucket of monthlyBattingTrend, App.jsx:450-468
MonthlyBattingBucket(key, rows) ==
    LET m == [ab |-> SumOver(rows, LAMBDA r : r.ab),
              h |-> SumOver(rows, LAMBDA r : r.h),
              runs |-> SumOver(rows, LAMBDA r : r.runs),
              bb |-> SumOver(rows, LAMBDA r : r.bb),
              hbp |-> SumOver(rows, LAMBDA r : r.hbp),
              sf |-> SumOver(rows, LAMBDA r : r.sf),
              doubles |-> SumOver(rows, LAMBDA r : r.doubles),
              triples |-> SumOver(rows, LAMBDA r : r.triples),
              hr |-> SumOver(rows, LAMBDA r : r.hr)]
        avg == safeDiv(Num(m.h), Num(m.ab))
        obp == safeDiv(Num(m.h + m.bb + m.hbp), Num(m.ab + m.bb + m.hbp + m.sf))
        slg == safeDiv(Num((m.h - m.doubles - m.triples - m.hr) + m.doubles * 2
                           + m.triples * 3 + m.hr * 4), Num(m.ab))
    IN  [month |-> key, ab |-> m.ab, h |-> m.h, runs |-> m.runs, bb |-> m.bb,
         hbp |-> m.hbp, sf |-> m.sf, doubles |-> m.doubles,
         triples |-> m.triples, hr |-> m.hr,
         avg |-> toFixed(avg, 3), ops |-> toFixed(RAdd(obp, slg), 3)]

\* monthlyBattingTrend, App.jsx:444-470
MonthlyBattingTrend(data, zone) ==
    LET keys == LocaleSortedKeys(GroupKeys(data, LAMBDA r : monthlyGetKey(r, zone)))
    IN  [k \in 1..Len(keys) |->
            MonthlyBattingBucket(keys[k],
                RowsOfKey(data, LAMBDA r : monthlyGetKey(r, zone), keys[k]))]

monthlyBattingTrend == MonthlyBattingTrend(filteredBattingData, tz)

\* one bucket of monthlyPitchingTrend, App.jsx:478-490
MonthlyPitchingBucket(key, rows) ==
    LET m == [h |-> SumOver(rows, LAMBDA r : r.h),
              bb |-> SumOver(rows, LAMBDA r : r.bb),
              hbp |-> SumOver(rows, LAMBDA r : r.hbp),
              so |-> SumOver(rows, LAMBDA r : r.so),
              s |-> SumOver(rows, LAMBDA r : r.s),
              pitches |-> SumOver(rows, LAMBDA r : r.pitches)]
        strikeRate == RMul(safeDiv(Num(m.s), Num(m.pitches)), Num(100))
    IN  [month |-> key, h |-> m.h, bb |-> m.bb, hbp |-> m.hbp, so |-> m.so,
         s |-> m.s, pitches |-> m.pitches, bbhbp |-> m.bb + m.hbp,
         strikeRate |-> toFixed(strikeRate, 1)]

\* monthlyPitchingTrend, App.jsx:472-492
MonthlyPitchingTrend(data, zone) ==
    LET keys == LocaleSortedKeys(GroupKeys(data, LAMBDA r : monthlyGetKey(r, zone)))
    IN  [k \in 1..Len(keys) |->
            MonthlyPitchingBucket(keys[k],
                RowsOfKey(data, LAMBDA r : monthlyGetKey(r, zone), keys[k]))]

monthlyPitchingTrend == MonthlyPitchingTrend(filteredPitchingData, tz)

\* one batting bucket of teamTrendData, App.jsx:522-551
TeamBattingBucket(key, rows) ==
    LET m == [ab |-> SumOver(rows, LAMBDA r : r.ab),
              h |-> SumOver(rows, LAMBDA r : r.h),
              bb |-> SumOver(rows, LAMBDA r : r.bb),
              hbp |-> SumOver(rows, LAMBDA r : r.hbp),
              sf |-> SumOver(rows, LAMBDA r : r.sf),
              runs |-> SumOver(rows, LAMBDA r : r.runs),
              doubles |-> SumOver(rows, LAMBDA r : r.doubles),
              triples |-> SumOver(rows, LAMBDA r : r.triples),
              hr |-> SumOver(rows, LAMBDA r : r.hr),
              so |-> SumOver(rows, LAMBDA r : r.so),
              sb |-> SumOver(rows, LAMBDA r : r.sb)]
        avg == safeDiv(Num(m.h), Num(m.ab))
        obp == safeDiv(Num(m.h + m.bb + m.hbp), Num(m.ab + m.bb + m.hbp + m.sf))
        slg == safeDiv(Num((m.h - m.doubles - m.triples - m.hr) + m.doubles * 2
                           + m.triples * 3 + m.hr * 4), Num(m.ab))
        pa == m.ab + m.bb + m.hbp + m.sf
        bbRate == RMul(safeDiv(Num(m.bb + m.hbp), Num(pa)), Num(100))
        soRate == RMul(safeDiv(Num(m.so), Num(pa)), Num(100))
    IN  [periodKey |-> key, ab |-> m.ab, h |-> m.h, bb |-> m.bb, hbp |-> m.hbp,
         sf |-> m.sf, runs |-> m.runs, doubles |-> m.doubles,
         triples |-> m.triples, hr |-> m.hr, so |-> m.so, sb |-> m.sb,
         avg |-> toFixed(avg, 3), ops |-> toFixed(RAdd(obp, slg), 3),
         bbRate |-> toFixed(bbRate, 1), soRate |-> toFixed(soRate, 1)]

\* one pitching bucket of teamTrendData, App.jsx:559-580
TeamPitchingBucket(key, rows) ==
    LET m == [outs |-> SumOver(rows, LAMBDA r : r.outs),
              er |-> SumOver(rows, LAMBDA r : r.er),
              h |-> SumOver(rows, LAMBDA r : r.h),
              bb |-> SumOver(rows, LAMBDA r : r.bb),
              hbp |-> SumOver(rows, LAMBDA r : r.hbp),
              so |-> SumOver(rows, LAMBDA r : r.so),
              s |-> SumOver(rows, LAMBDA r : r.s),
              pitches |-> SumOver(rows, LAMBDA r : r.pitches)]
        innings == Frac(m.outs, 3)
        era == safeDiv(Num(m.er * 7), innings)
        whip == safeDiv(Num(m.h + m.bb + m.hbp), innings)
        kPer7 == safeDiv(Num(m.so * 7), innings)
        bbPer7 == safeDiv(Num((m.bb + m.hbp) * 7), innings)
        strikeRate == RMul(safeDiv(Num(m.s), Num(m.pitches)), Num(100))
    IN  [periodKey |-> key, outs |-> m.outs, er |-> m.er, h |-> m.h,
         bb |-> m.bb, hbp |-> m.hbp, so |-> m.so, s |-> m.s,
         pitches |-> m.pitches, bbhbp |-> m.bb + m.hbp,
         era |-> toFixed(era, 2), whip |-> toFixed(whip, 2),
         kPer7 |-> toFixed(kPer7, 2), bbPer7 |-> toFixed(bbPer7, 2),
         strikeRate |-> toFixed(strikeRate, 1)]

\* teamTrendData, App.jsx:494-583
TeamTrend(bdata, pdata, period, zone) ==
    LET bkeys == LocaleSortedKeys(GroupKeys(bdata, LAMBDA r : teamGetKey(r, period, zone)))
        pkeys == LocaleSortedKeys(GroupKeys(pdata, LAMBDA r : teamGetKey(r, period, zone)))
    IN  [batting |-> [k \in 1..Len(bkeys) |->
            TeamBattingBucket(bkeys[k],
                RowsOfKey(bdata, LAMBDA r : teamGetKey(r, period, zone), bkeys[k]))],
         pitching |-> [k \in 1..Len(pkeys) |->
            TeamPitchingBucket(pkeys[k],
                RowsOfKey(pdata, LAMBDA r : teamGetKey(r, period, zone), pkeys[k]))]]

teamTrendData == TeamTrend(filteredBattingData, filteredPitchingData, trendPeriod, tz)

(***************************************************************************)
(* Game outcome derivation, gameByGameStats, App.jsx:585-646.              *)
(***************************************************************************)
\* First pass, App.jsx:591-613: the entries of gamesMap, in insertion
\* order, after the first n batting rows.
RECURSIVE GamesFromBatting(_, _)
GamesFromBatting(rows, n) ==
    IF n = 0 THEN <<>>
    ELSE LET prev == GamesFromBatting(rows, n - 1)
             row  == rows[n]
             gameId == row.gameId
             opponent == Opponent(row)
             has  == \E i \in 1..Len(prev) : prev[i].id = gameId
             map  == IF has THEN prev
                     ELSE Append(prev,
                            [id |-> gameId, date |-> row.date,
                             opponent |-> IF opponent # <<>> THEN opponent ELSE Unknown,
                             scoreText |-> row.scoreText,
                             runsScored |-> 0, runsAllowed |-> 0])
             i    == CHOOSE j \in 1..Len(map) : map[j].id = gameId
         IN  IF gameId = "" THEN prev
             ELSE [map EXCEPT ![i].runsScored = @ + row.runs]

\* A second pass that adds nothing.
GamesWithoutPitching(map, rows, n) == map

\* Second pass, App.jsx:616-621
RECURSIVE GamesWithPitching(_, _, _)
GamesWithPitching(map, rows, n) ==
    IF n = 0 THEN map
    ELSE LET prev == GamesWithPitching(map, rows, n - 1)
             gameId == rows[n].gameId
         IN  IF \E i \in 1..Len(prev) : prev[i].id = gameId
             THEN [prev EXCEPT ![CHOOSE j \in 1..Len(prev) : prev[j].id = gameId]
                                   .runsAllowed = @ + rows[n].r]
             ELSE prev

\* A classification that takes a tie for a win.
GameResultTieWins(game) ==
    IF game.runsScored >= game.runsAllowed THEN "W" ELSE "L"

\* App.jsx:629-631
GameResultOf(game) ==
    IF game.runsScored > game.runsAllowed THEN "W"
    ELSE IF game.runsScored < game.runsAllowed THEN "L"
    ELSE "T"

\* text.replace('-', '/'): the first occurrence only
RECURSIVE ReplaceFirstDash(_)
ReplaceFirstDash(s) ==
    IF s = <<>> THEN <<>>
    ELSE IF Head(s) = "-" THEN <<"/">> \o Tail(s)
    ELSE <<Head(s)>> \o ReplaceFirstDash(Tail(s))

\* App.jsx:623
SortedGames(bdata, pdata, zone) ==
    SortBy(GamesWithPitching(GamesFromBatting(bdata, Len(bdata)), pdata, Len(pdata)),
           LAMBDA a, b : parseDate(a.date, zone).ts - parseDate(b.date, zone).ts < 0)

\* the value of `wins` after the callback of App.jsx:628-645 ran for the
\* first k games
RECURSIVE WinsAfter(_, _)
WinsAfter(sortedGames, k) ==
    IF k = 0 THEN 0
    ELSE WinsAfter(sortedGames, k - 1)
         + (IF GameResultOf(sortedGames[k]) = "W" THEN 1 ELSE 0)

\* gameByGameStats as a function of the filtered rows
GameByGame(bdata, pdata, zone) ==
    IF Len(bdata) = 0 THEN <<>>
    ELSE
      LET sortedGames == SortedGames(bdata, pdata, zone)
      IN  [k \in 1..Len(sortedGames) |->
            LET game == sortedGames[k]
                gamesPlayed == k
                wins == WinsAfter(sortedGames, k)
                winningPercentage == safeDiv(Num(wins), Num(gamesPlayed))
            IN  [id |-> game.id, date |-> game.date, opponent |-> game.opponent,
                 scoreText |-> game.scoreText,
                 runsScored |-> game.runsScored, runsAllowed |-> game.runsAllowed,
                 result |-> GameResultOf(game),
                 winningPercentage |-> toFixed(winningPercentage, 3),
                 label |-> ReplaceFirstDash(SubSeq(game.date, 6, Len(game.date)))
                           \o <<" ", "v", "s", " ">> \o game.opponent]]

gameByGameStats == GameByGame(filteredBattingData, filteredPitchingData, tz)

\* game.date.substring(5), App.jsx:643, is a TypeError when a game's date
\* is undefined: the callback of sortedGames.map throws and takes the
\* computation of gameByGameStats, and the render, with it.  GameByGame is
\* the value of the computation when it does not throw.
GameByGameThrows(bdata, pdata, zone) ==
    /\ Len(bdata) # 0
    /\ LET sortedGames == SortedGames(bdata, pdata, zone)
       IN  \E k \in 1..Len(sortedGames) : sortedGames[k].date = Undefined

gameByGameStatsThrows ==
    GameByGameThrows(filteredBattingData, filteredPitchingData, tz)

(***************************************************************************)
(* The player list, App.jsx:134-163.                                       *)
(***************************************************************************)
\* battingData.forEach / pitchingData.forEach: the entries of `players`
\* in insertion order after the first n rows
RECURSIVE PlayersMap(_, _)
PlayersMap(rows, n) ==
    IF n = 0 THEN <<>>
    ELSE LET prev == PlayersMap(rows, n - 1)
             pid  == PlayerKey(rows[n])
         IN  IF \E i \in 1..Len(prev) : prev[i].id = pid THEN prev
             ELSE Append(prev, [id |-> pid, name |-> rows[n].name,
                                number |-> rows[n].number])

\* parseInt(a.number) || 999
SortNumber(p) ==
    LET v == parseInt(p.number)
    IN  IF v.nan \/ v.val = 0 THEN 999 ELSE v.val

PlayerList(bdata, pdata) ==
    SortBy(PlayersMap(bdata \o pdata, Len(bdata) + Len(pdata)),
           LAMBDA a, b : SortNumber(a) - SortNumber(b) < 0)

playerList == PlayerList(battingData, pitchingData)

\* categories, App.jsx:139 (as a set; the select shows them sorted)
categories == {battingData[i].title : i \in {j \in 1..Len(battingData) : battingData[j].title # ""}}

(***************************************************************************)
(* Comparison: the ranking of one metric, the correlation data and the     *)
(* lists of the all-rankings view.                                         *)
(***************************************************************************)
\* App.jsx:171-175 and 176-179 (the values v of the options)
battingMetricOptions ==
    <<"avg", "ops", "hr", "rbi", "sb", "obp", "slg", "bb", "so">>
pitchingMetricOptions ==
    <<"era", "whip", "kbb", "so", "win", "displayInnings">>

\* p[key] of a summary p: undefined when p has no such property; the
\* rounded rates are numbers again (thousandths and hundredths)
Prop(p, key) ==
    IF key \notin DOMAIN p THEN JsUndefined
    ELSE CASE key \in {"avg", "obp", "slg", "ops", "isoD"} ->
                 JsNumber(Frac(p[key], 1000))
           [] key \in {"bbK", "era", "whip", "kbb"} -> JsNumber(Frac(p[key], 100))
           [] key = "inningsVal" -> JsNumber(p[key])
           [] key \in {"displayInnings", "number"} -> JsString(p[key])
           [] key \in {"id", "name"} -> JsString(<<p[key]>>)
           [] OTHER -> JsNumber(Num(p[key]))

\* the k low decimal digits of n, zero-padded
RECURSIVE PadDigits(_, _)
PadDigits(n, k) ==
    IF k = 0 THEN <<>> ELSE PadDigits(n \div 10, k - 1) \o Dec(n % 10)

\* x.toFixed(k) as text, for a finite x
ToFixedText(x, k) ==
    LET r == toFixed(x, k)
        m == Abs(r)
    IN  (IF r < 0 THEN <<"-">> ELSE <<>>)
           \o NumToStr(m \div Pow10(k)) \o <<".">> \o PadDigits(m % Pow10(k), k)

\* formatRate(rate) with leadingZero = false, App.jsx:70-74
formatRate(rate) ==
    IF rate.t # "number" THEN rate
    ELSE LET formatted == ToFixedText(rate.v, 3)
         IN  JsString(IF Head(formatted) = "0" THEN Tail(formatted) ELSE formatted)

\* Number.isInteger(x)
IsInteger(x) == x.t = "number" /\ x.v.d = 1

\* a > b of two fractions with positive denominators
MoreThan(a, b) == a.n * b.d > b.n * a.d

\* a >= b of two fractions with positive denominators
AtLeast(a, b) == a.n * b.d >= b.n * a.d

\* x ?? dflt
Nullish(x, dflt) == IF x.t = "undefined" THEN dflt ELSE x

\* a comparator's result x is negative (a NaN result counts as 0)
Negative(x) == x.t \in {"number", "Infinity"} /\ x.v.n < 0

\* the test of App.jsx:857
RankAscendingNever(metric) == FALSE

\* ['era', 'whip'].includes(comparisonMetric), App.jsx:857
RankAscending(metric) == metric \in {"era", "whip"}

\* App.jsx:832-839
PitchingRankingEntry(p, metric) ==
    LET value == IF metric = "displayInnings" THEN Prop(p, "inningsVal")
                 ELSE Prop(p, metric)
        raw == Prop(p, metric)
    IN  [name |-> p.name, value |-> value,
         displayValue |-> IF raw.t = "number" /\ ~IsInteger(raw)
                          THEN JsString(ToFixedText(raw.v, 2)) ELSE raw]

\* App.jsx:843-852
BattingRankingEntry(p, metric) ==
    LET value == Prop(p, metric)
    IN  [name |-> p.name, value |-> value,
         displayValue |-> IF metric \in {"avg", "obp"} THEN formatRate(value)
                          ELSE IF value.t = "number" /\ ~IsInteger(value)
                               THEN JsString(ToFixedText(value.v, 3))
                               ELSE value]

\* the comparators of App.jsx:858 and 860
RankingBefore(a, b, metric) ==
    IF RankAscending(metric)
    THEN Negative(JsSub(Nullish(a.value, JsInfinity(1)),
                        Nullish(b.value, JsInfinity(1))))
    ELSE Negative(JsSub(Nullish(b.value, JsInfinity(-1)),
                        Nullish(a.value, JsInfinity(-1))))

\* rankingData as a function of its dependencies, App.jsx:825-863
RankingData(batting, pitching, metric, minPA, dataType) ==
    LET kept == IF dataType = "pitching"
                THEN Filter(pitching, LAMBDA q : AtLeast(q.inningsVal, minPA))
                ELSE Filter(batting, LAMBDA q : AtLeast(Num(q.pa), minPA))
        data == [i \in 1..Len(kept) |->
                    IF dataType = "pitching"
                    THEN PitchingRankingEntry(kept[i], metric)
                    ELSE BattingRankingEntry(kept[i], metric)]
    IN  SortBy(data, LAMBDA a, b : RankingBefore(a, b, metric))

rankingData ==
    RankingData(aggregatedBatting, aggregatedPitching, comparisonMetric,
                comparisonMinPA, comparisonDataType)

\* comparisonScatterData, App.jsx:865-885
ComparisonScatterData(batting, pitching, minPA, x, y, dataType) ==
    IF dataType = "pitching"
    THEN LET kept == Filter(pitching, LAMBDA q : AtLeast(q.inningsVal, minPA))
         IN  [i \in 1..Len(kept) |->
                [name |-> kept[i].name, x |-> Prop(kept[i], x),
                 y |-> Prop(kept[i], y), z |-> Prop(kept[i], "inningsVal")]]
    ELSE LET kept == Filter(batting, LAMBDA q : AtLeast(Num(q.pa), minPA))
         IN  [i \in 1..Len(kept) |->
                [name |-> kept[i].name, x |-> Prop(kept[i], x),
                 y |-> Prop(kept[i], y), z |-> Prop(kept[i], "ops")]]

comparisonScatterData ==
    ComparisonScatterData(aggregatedBatting, aggregatedPitching, comparisonMinPA,
                          scatterX, scatterY, comparisonDataType)

\* the default length of a list of the all-rankings view, App.jsx:1134
RankingTop == 10

\* sortedData of RankingList, App.jsx:1135-1141; data is filteredBatting
\* or filteredPitching of App.jsx:1161-1162
RankingList(data, dataKey, isAsc, showAll) ==
    LET dflt == JsInfinity(IF isAsc THEN 1 ELSE -1)
        sorted ==
          SortBy(data, LAMBDA a, b :
            LET valA == Nullish(Prop(a, dataKey), dflt)
                valB == Nullish(Prop(b, dataKey), dflt)
            IN  Negative(IF isAsc THEN JsSub(valA, valB) ELSE JsSub(valB, valA)))
    IN  IF showAll \/ Len(sorted) <= RankingTop THEN sorted
        ELSE SubSeq(sorted, 1, RankingTop)

\* filteredBatting and filteredPitching of AllRankingsView, App.jsx:1161-1162
RankingsFilteredBatting ==
    Filter(aggregatedBatting, LAMBDA q : AtLeast(Num(q.pa), comparisonMinPA))
RankingsFilteredPitching ==
    Filter(aggregatedPitching, LAMBDA q : AtLeast(q.inningsVal, comparisonMinPA))

(***************************************************************************)
(* teamStats, App.jsx:430-442.                                             *)
(***************************************************************************)
\* the value null
NoTeamStats ==
    [null |-> TRUE, totalGames |-> 0, teamAvg |-> <<>>, totalR |-> 0,
     totalHR |-> 0, teamERA |-> <<>>]

\* teamStats as a function of the filtered batting rows and of the two
\* aggregations
TeamStats(fbatting, batting, pitching) ==
    IF Len(fbatting) = 0 THEN NoTeamStats
    ELSE
      LET gameIds == {fbatting[i].gameId : i \in 1..Len(fbatting)}
          totalAB == SumOver(batting, LAMBDA cur : cur.ab)
          totalH == SumOver(batting, LAMBDA cur : cur.h)
          totalR == SumOver(batting, LAMBDA cur : cur.runs)
          totalHR == SumOver(batting, LAMBDA cur : cur.hr)
          teamAvg == ToFixedText(safeDiv(Num(totalH), Num(totalAB)), 3)
          totalER == SumOver(pitching, LAMBDA cur : cur.er)
          totalOuts == SumOver(pitching, LAMBDA cur : cur.outs)
          teamERA == ToFixedText(safeDiv(Num(totalER * 7), Frac(totalOuts, 3)), 2)
      IN  [null |-> FALSE, totalGames |-> Cardinality(gameIds),
           teamAvg |-> teamAvg, totalR |-> totalR, totalHR |-> totalHR,
           teamERA |-> teamERA]

teamStats == TeamStats(filteredBattingData, aggregatedBatting, aggregatedPitching)

(***************************************************************************)
(* The state machine.                                                      *)
(***************************************************************************)
\* useState of activeFilters, App.jsx:107-112
InitialFilters ==
    [startDate |-> <<"2", "0", "2", "5", "-", "1", "0", "-", "0", "1">>,
     endDate |-> <<>>, teamKeyword |-> <<>>, category |-> "all"]

\* the value resetFilters sets, App.jsx:286-291
EmptyFilters ==
    [startDate |-> <<>>, endDate |-> <<>>, teamKeyword |-> <<>>, category |-> "all"]

\* useState of the comparison panel, App.jsx:124-130
ComparisonInit ==
    /\ comparisonMetric = "avg"
    /\ comparisonMinPA = Num(0)
    /\ comparisonChartType = "ranking"
    /\ scatterX = "obp"
    /\ scatterY = "slg"
    /\ comparisonDataType = "batting"

\* no call of safeDiv is being observed
NoCall == [a |-> JsUndefined, b |-> JsUndefined, ret |-> JsUndefined, done |-> FALSE]

\* localStorage without the keys of the application, App.jsx:273-275
NoStorage == [present |-> FALSE, batting |-> <<>>, pitching |-> <<>>]

\* nothing awaits a file and nothing is stored
IoInit ==
    /\ inflight = <<>>
    /\ storage = NoStorage

\* The state of App() after its first render, App.jsx:96-131, with every
\* effect scheduled once.
AppInit ==
    /\ battingData = <<>>
    /\ pitchingData = <<>>
    /\ activeFilters = InitialFilters
    /\ draftFilters = InitialFilters
    /\ trendTarget = "team"
    /\ trendType = "batting"
    /\ selectedPlayerId = ""
    /\ trendPeriod = "monthly"
    /\ ComparisonInit
    /\ pending = {"draft", "player", "scatter", "metric"}
    /\ call = NoCall
    /\ IoInit

dataVars == <<battingData, pitchingData>>
filterVars == <<activeFilters, draftFilters>>
trendVars == <<trendTarget, trendType, selectedPlayerId, trendPeriod>>
cmpVars == <<comparisonMetric, comparisonMinPA, comparisonChartType,
             scatterX, scatterY, comparisonDataType>>
ioVars == <<inflight, storage>>

\* useEffect(() => { setDraftFilters({...activeFilters}) }, [activeFilters]),
\* App.jsx:115
SyncDraftEffect ==
    /\ "draft" \in pending
    /\ draftFilters' = activeFilters
    /\ pending' = pending \ {"draft"}
    /\ UNCHANGED <<dataVars, activeFilters, trendVars, tz, cmpVars, call, ioVars>>

\* useEffect(() => { if (playerList.length > 0 && !selectedPlayerId)
\*   setSelectedPlayerId(playerList[0].id) }, [playerList]), App.jsx:165-169
DefaultPlayerEffect ==
    /\ "player" \in pending
    /\ selectedPlayerId' =
          IF Len(playerList) > 0 /\ selectedPlayerId = ""
          THEN playerList[1].id ELSE selectedPlayerId
    /\ pending' = pending \ {"player"}
    /\ UNCHANGED <<dataVars, filterVars, trendTarget, trendType, trendPeriod, tz, cmpVars, call, ioVars>>

\* An event handler runs once the effects of the last render have run.
Idle == pending = {}

\* loadDefaultData, App.jsx:219-234, when both fetches have succeeded:
\* the decoded rows of the two sample files replace the data.
loadDefaultData(batting, pitching) ==
    /\ Idle
    /\ battingData' = batting
    /\ pitchingData' = pitching
    /\ pending' = {"player"}
    /\ UNCHANGED <<filterVars, trendVars, tz, cmpVars, call, ioVars>>

\* handleFileUpload, App.jsx:238-269, when nothing else completes while
\* it awaits its files: a batting file, a pitching file or both; a kind
\* that is not uploaded keeps its rows; both kinds are stored.
handleFileUpload(hasBatting, batting, hasPitching, pitching) ==
    /\ Idle
    /\ hasBatting \/ hasPitching
    /\ battingData' = IF hasBatting THEN batting ELSE battingData
    /\ pitchingData' = IF hasPitching THEN pitching ELSE pitchingData
    /\ storage' = [present |-> TRUE, batting |-> battingData',
                   pitching |-> pitchingData']
    /\ pending' = {"player"}
    /\ UNCHANGED <<filterVars, trendVars, tz, cmpVars, call, inflight>>

\* a start-date input that filters as the user types
EditActiveStartDate(v) ==
    /\ Idle
    /\ draftFilters' = [draftFilters EXCEPT !.startDate = v]
    /\ activeFilters' = [activeFilters EXCEPT !.startDate = v]
    /\ UNCHANGED <<dataVars, trendVars, pending, tz, cmpVars, call, ioVars>>

\* onChange of the filter panel's inputs, App.jsx:898, 905, 920, 929
EditDraftStartDate(v) ==
    /\ Idle
    /\ draftFilters' = [draftFilters EXCEPT !.startDate = v]
    /\ UNCHANGED <<dataVars, activeFilters, trendVars, pending, tz, cmpVars, call, ioVars>>

EditDraftEndDate(v) ==
    /\ Idle
    /\ draftFilters' = [draftFilters EXCEPT !.endDate = v]
    /\ UNCHANGED <<dataVars, activeFilters, trendVars, pending, tz, cmpVars, call, ioVars>>

EditDraftTeamKeyword(v) ==
    /\ Idle
    /\ draftFilters' = [draftFilters EXCEPT !.teamKeyword = v]
    /\ UNCHANGED <<dataVars, activeFilters, trendVars, pending, tz, cmpVars, call, ioVars>>

EditDraftCategory(v) ==
    /\ Idle
    /\ v \in {"all"} \cup categories
    /\ draftFilters' = [draftFilters EXCEPT !.category = v]
    /\ UNCHANGED <<dataVars, activeFilters, trendVars, pending, tz, cmpVars, call, ioVars>>

\* onClick={() => setActiveFilters(draftFilters)}, App.jsx:940
ApplyFilters ==
    /\ Idle
    /\ activeFilters' = draftFilters
    /\ pending' = {"draft"}
    /\ UNCHANGED <<dataVars, draftFilters, trendVars, tz, cmpVars, call, ioVars>>

\* resetFilters, App.jsx:285-292
resetFilters ==
    /\ Idle
    /\ activeFilters' = EmptyFilters
    /\ pending' = {"draft"}
    /\ UNCHANGED <<dataVars, draftFilters, trendVars, tz, cmpVars, call, ioVars>>

\* App.jsx:627, 633
setTrendTarget(v) ==
    /\ Idle
    /\ trendTarget' = v
    /\ UNCHANGED <<dataVars, filterVars, trendType, selectedPlayerId, trendPeriod,
                   pending, tz, cmpVars, call, ioVars>>

\* App.jsx:1642-1648
setTrendPeriod(v) ==
    /\ Idle
    /\ trendPeriod' = v
    /\ UNCHANGED <<dataVars, filterVars, trendTarget, trendType, selectedPlayerId,
                   pending, tz, cmpVars, call, ioVars>>

\* The player select and the batting/pitching switch are rendered only
\* while trendTarget === 'player', App.jsx:1654.
setSelectedPlayerId(v) ==
    /\ Idle
    /\ trendTarget = "player"
    /\ v \in {playerList[i].id : i \in 1..Len(playerList)}
    /\ selectedPlayerId' = v
    /\ UNCHANGED <<dataVars, filterVars, trendTarget, trendType, trendPeriod,
                   pending, tz, cmpVars, call, ioVars>>

\* App.jsx:1668, 1674
setTrendType(v) ==
    /\ Idle
    /\ trendTarget = "player"
    /\ trendType' = v
    /\ UNCHANGED <<dataVars, filterVars, trendTarget, selectedPlayerId, trendPeriod,
                   pending, tz, cmpVars, call, ioVars>>

\* useEffect(..., [comparisonDataType]), App.jsx:181-190
ScatterAxesEffect ==
    /\ "scatter" \in pending
    /\ scatterX' = IF comparisonDataType = "batting" THEN "obp" ELSE "era"
    /\ scatterY' = IF comparisonDataType = "batting" THEN "slg" ELSE "whip"
    /\ pending' = pending \ {"scatter"}
    /\ UNCHANGED <<dataVars, filterVars, trendVars, comparisonMetric,
                   comparisonMinPA, comparisonChartType, comparisonDataType,
                   tz, call, ioVars>>

\* a metric effect that never falls back
MetricEffectKeeps ==
    /\ "metric" \in pending
    /\ pending' = pending \ {"metric"}
    /\ UNCHANGED <<dataVars, filterVars, trendVars, cmpVars, tz, call, ioVars>>

\* useEffect(..., [comparisonDataType, comparisonMetric, ...]),
\* App.jsx:192-201; the run that follows its own setComparisonMetric finds
\* the metric among the options and changes nothing
MetricEffect ==
    /\ "metric" \in pending
    /\ LET currentOptions == IF comparisonDataType = "batting"
                             THEN battingMetricOptions ELSE pitchingMetricOptions
       IN  comparisonMetric' =
             IF comparisonMetric \notin Range(currentOptions)
             THEN (IF comparisonDataType = "batting" THEN "avg" ELSE "era")
             ELSE comparisonMetric
    /\ pending' = pending \ {"metric"}
    /\ UNCHANGED <<dataVars, filterVars, trendVars, comparisonMinPA,
                   comparisonChartType, scatterX, scatterY, comparisonDataType,
                   tz, call, ioVars>>

\* App.jsx:1254, 1258: a change of the data type schedules both effects
setComparisonDataType(v) ==
    /\ Idle
    /\ comparisonDataType' = v
    /\ pending' = IF v # comparisonDataType THEN {"scatter", "metric"} ELSE {}
    /\ UNCHANGED <<dataVars, filterVars, trendVars, comparisonMetric,
                   comparisonMinPA, comparisonChartType, scatterX, scatterY,
                   tz, call, ioVars>>

\* App.jsx:1266, 1272, 1278, 1284
setComparisonChartType(v) ==
    /\ Idle
    /\ comparisonChartType' = v
    /\ UNCHANGED <<dataVars, filterVars, trendVars, comparisonMetric,
                   comparisonMinPA, scatterX, scatterY, comparisonDataType,
                   pending, tz, call, ioVars>>

\* onChange={(e) => setComparisonMinPA(Number(e.target.value))}, App.jsx:1300
setComparisonMinPA(v) ==
    /\ Idle
    /\ comparisonMinPA' = v
    /\ UNCHANGED <<dataVars, filterVars, trendVars, comparisonMetric,
                   comparisonChartType, scatterX, scatterY, comparisonDataType,
                   pending, tz, call, ioVars>>

\* The metric select, App.jsx:1312-1321, is rendered for the chart type
\* 'ranking' and offers the options of the current data type.
setComparisonMetric(v) ==
    /\ Idle
    /\ comparisonChartType = "ranking"
    /\ v \in Range(IF comparisonDataType = "batting"
                    THEN battingMetricOptions ELSE pitchingMetricOptions)
    /\ comparisonMetric' = v
    /\ pending' = IF v # comparisonMetric THEN {"metric"} ELSE {}
    /\ UNCHANGED <<dataVars, filterVars, trendVars, comparisonMinPA,
                   comparisonChartType, scatterX, scatterY, comparisonDataType,
                   tz, call, ioVars>>

\* The axis selects, App.jsx:1325-1342, are rendered for the chart type
\* 'scatter'.
setScatterX(v) ==
    /\ Idle
    /\ comparisonChartType = "scatter"
    /\ v \in Range(IF comparisonDataType = "batting"
                    THEN battingMetricOptions ELSE pitchingMetricOptions)
    /\ scatterX' = v
    /\ UNCHANGED <<dataVars, filterVars, trendVars, comparisonMetric,
                   comparisonMinPA, comparisonChartType, scatterY,
                   comparisonDataType, pending, tz, call, ioVars>>

setScatterY(v) ==
    /\ Idle
    /\ comparisonChartType = "scatter"
    /\ v \in Range(IF comparisonDataType = "batting"
                    THEN battingMetricOptions ELSE pitchingMetricOptions)
    /\ scatterY' = v
    /\ UNCHANGED <<dataVars, filterVars, trendVars, comparisonMetric,
                   comparisonMinPA, comparisonChartType, scatterX,
                   comparisonDataType, pending, tz, call, ioVars>>

(***************************************************************************)
(* Inputs.  The rows a decoded CSV file can hold are drawn from small      *)
(* sets; a data set has at most MaxRows rows.                              *)
(***************************************************************************)
\* zone offsets west and east of Greenwich (hours)
TimeZones == {-5, 9}

D0930 == <<"2", "0", "2", "5", "-", "0", "9", "-", "3", "0">>
D1001 == <<"2", "0", "2", "5", "-", "1", "0", "-", "0", "1">>
D1002 == <<"2", "0", "2", "5", "-", "1", "0", "-", "0", "2">>
D1001Slash == <<"2", "0", "2", "5", "/", "1", "0", "/", "0", "1">>
D0905Short == <<"2", "0", "2", "5", "-", "9", "-", "5">>
DText == <<"a", "b", "c">>

TeamAri == <<"a", "r", "i">>
TeamAnt == <<"A", "n", "t">>
TeamB == <<"B">>

BattingRow0 ==
    [id |-> "p1", name |-> "A", number |-> <<"1">>, date |-> D1001,
     gameId |-> "g1", title |-> "", away |-> <<>>, home |-> <<>>,
     scoreText |-> "",
     pa |-> 0, ab |-> 0, h |-> 0, doubles |-> 0, triples |-> 0, hr |-> 0,
     rbi |-> 0, runs |-> 0, so |-> 0, bb |-> 0, hbp |-> 0, sb |-> 0,
     sf |-> 0, sac |-> 0]

PitchingRow0 ==
    [id |-> "p1", name |-> "A", number |-> <<"1">>, date |-> D1001,
     gameId |-> "g1", title |-> "", away |-> <<>>, home |-> <<>>,
     scoreText |-> "",
     outs |-> 0, h |-> 0, r |-> 0, er |-> 0, bb |-> 0, hbp |-> 0, so |-> 0,
     win |-> 0, loss |-> 0, sv |-> 0, s |-> 0, pitches |-> 0]

\* Rows for the filter panel: the days around the first of October, two
\* titles, the home team on either side.
AppBattingRows ==
    {[BattingRow0 EXCEPT !.date = D0930, !.title = "A", !.away = TeamAri, !.home = TeamB],
     [BattingRow0 EXCEPT !.date = D1001, !.title = "A", !.away = TeamB, !.home = TeamAnt],
     [BattingRow0 EXCEPT !.date = D1002, !.title = "B", !.away = TeamAri, !.home = TeamAnt]}

AppPitchingRows ==
    {[PitchingRow0 EXCEPT !.date = D1002, !.title = "B", !.away = TeamAri, !.home = TeamAnt],
     [PitchingRow0 EXCEPT !.date = D1001Slash, !.title = "A", !.away = TeamB, !.home = TeamAnt]}

\* what <input type="date"> can hold: nothing, or YYYY-MM-DD
FilterDates == {<<>>, D1001}
FilterKeywords == {<<>>, <<"b">>}

\* the decoded rows of the two sample files, App.jsx:7-8
SampleBatting ==
    <<[BattingRow0 EXCEPT !.date = D1001, !.title = "A", !.away = TeamB, !.home = TeamAnt]>>

SamplePitching ==
    <<[PitchingRow0 EXCEPT !.date = D1002, !.title = "B", !.away = TeamAri, !.home = TeamAnt]>>

Init ==
    /\ AppInit
    /\ tz \in TimeZones

Next ==
    \/ SyncDraftEffect
    \/ DefaultPlayerEffect
    \/ ScatterAxesEffect
    \/ MetricEffect
    \/ loadDefaultData(SampleBatting, SamplePitching)
    \/ \E b \in SeqsUpTo(AppBattingRows, MaxAppRows) :
          handleFileUpload(TRUE, b, FALSE, <<>>)
    \/ \E p \in SeqsUpTo(AppPitchingRows, MaxAppRows) :
          handleFileUpload(FALSE, <<>>, TRUE, p)
    \/ \E b \in AppBattingRows, p \in AppPitchingRows :
          handleFileUpload(TRUE, <<b>>, TRUE, <<p>>)
    \/ \E v \in FilterDates : EditDraftStartDate(v)
    \/ \E v \in FilterDates : EditDraftEndDate(v)
    \/ \E v \in FilterKeywords : EditDraftTeamKeyword(v)
    \/ \E v \in {"all", "A"} : EditDraftCategory(v)
    \/ ApplyFilters
    \/ resetFilters

\* The data and filter life cycle of the application.
Spec == Init /\ [][Next]_vars

(***************************************************************************)
(* The trend panel: data sets for one player on a few dates (zero-padded,  *)
(* unpadded, not a date), and a second player.                             *)
(***************************************************************************)
TrendDates == {D1001, D0905Short, DText}

BattingLine1 == [BattingRow0 EXCEPT !.pa = 4, !.ab = 3, !.h = 1, !.so = 1, !.sf = 1]
BattingLine2 == [BattingRow0 EXCEPT !.pa = 4, !.ab = 2, !.h = 2, !.bb = 1, !.hbp = 1,
                                    !.doubles = 1, !.hr = 1, !.rbi = 2]

TrendBattingRows ==
    {[line EXCEPT !.date = d] : line \in {BattingLine1, BattingLine2}, d \in TrendDates}
    \cup {[BattingLine1 EXCEPT !.id = "p2", !.name = "B", !.number = <<"2">>]}

PitchingLine1 == [PitchingRow0 EXCEPT !.outs = 3, !.er = 1, !.h = 2, !.bb = 1, !.so = 2,
                                      !.pitches = 15, !.s = 9]
PitchingLine2 == [PitchingRow0 EXCEPT !.outs = 2, !.h = 1, !.hbp = 1, !.so = 1,
                                      !.pitches = 10, !.s = 7]

TrendPitchingRows ==
    {[line EXCEPT !.date = d] : line \in {PitchingLine1, PitchingLine2}, d \in TrendDates}
    \cup {[PitchingLine1 EXCEPT !.id = "p2", !.name = "B", !.number = <<"2">>]}

\* The application with a batting file or a pitching file loaded.
InitTrend ==
    /\ \/ battingData \in SeqsUpTo(TrendBattingRows, MaxRows) /\ pitchingData = <<>>
       \/ battingData = <<>> /\ pitchingData \in SeqsUpTo(TrendPitchingRows, MaxRows)
    /\ activeFilters = InitialFilters
    /\ draftFilters = InitialFilters
    /\ trendTarget = "team"
    /\ trendType = "batting"
    /\ selectedPlayerId = ""
    /\ trendPeriod = "monthly"
    /\ pending = {"player"}
    /\ ComparisonInit
    /\ call = NoCall
    /\ IoInit
    /\ tz \in TimeZones

NextTrend ==
    \/ DefaultPlayerEffect
    \/ SyncDraftEffect
    \/ resetFilters
    \/ \E v \in {"team", "player"} : setTrendTarget(v)
    \/ \E v \in {"batting", "pitching"} : setTrendType(v)
    \/ \E v \in {"game", "monthly", "quarterly"} : setTrendPeriod(v)
    \/ \E v \in {"p1", "p2"} : setSelectedPlayerId(v)

SpecTrend == InitTrend /\ [][NextTrend]_vars

(***************************************************************************)
(* Properties of the player trends.                                        *)
(***************************************************************************)
\* A text that holds a calendar date: three parts that start with a digit.
HoldsDate(s) ==
    LET parts == SplitDate(s, <<>>)
    IN  Len(parts) = 3 /\ \A i \in 1..3 : parts[i] # <<>> /\ Head(parts[i]) \in Digits

\* Does the row belong to the selected player and to one of the buckets
\* at the positions js of the emitted trend?
InBuckets(row, trend, js) ==
    /\ (IF row.id # "" THEN row.id ELSE row.name) = selectedPlayerId
    /\ \E j \in js : playerGetKey(row, trendPeriod, tz) = Key(trend[j].periodKey)

\* the sum of F over the rows of the buckets at the positions js
BucketSum(data, trend, js, F(_)) ==
    SumOver(data, LAMBDA r : IF InBuckets(r, trend, js) THEN F(r) ELSE 0)

\* C1 as stated: the AB carried by the bucket at position k is
\* non-decreasing in k and equals the sum of the per-period AB of the
\* buckets 1..k.
BucketABIsRunningSum ==
    LET T == playerBattingTrendData
    IN  \A k \in 1..Len(T) :
          /\ T[k].ab = BucketSum(filteredBattingData, T, 1..k, LAMBDA r : r.ab)
          /\ k > 1 => T[k - 1].ab <= T[k].ab

\* C1, amended: the bucket at position k carries the AB of its own period;
\* the running total behind the rates of bucket k is the sum of the AB
\* carried by the buckets 1..k, and it is non-decreasing in k.
BucketABIsPerPeriod ==
    LET T == playerBattingTrendData
        rows == Filter(filteredBattingData, LAMBDA r : PlayerKey(r) = selectedPlayerId)
        keys == [j \in 1..Len(T) |-> T[j].periodKey]
        \* the value of `cumulative` behind the k-th emitted bucket
        running(k) == BattingCumulative(rows, keys, k, trendPeriod, tz)
    IN  \A k \in 1..Len(T) :
          /\ T[k].ab = BucketSum(filteredBattingData, T, {k}, LAMBDA r : r.ab)
          /\ running(k).ab = SumSeq([j \in 1..k |-> T[j].ab])
          /\ running(k - 1).ab <= running(k).ab

\* Two buckets, the second with fewer at-bats than the first.
BucketABWitness ==
    /\ Len(playerBattingTrendData) >= 2
    /\ playerBattingTrendData[1].ab > playerBattingTrendData[2].ab
    /\ playerBattingTrendData[2].ab > 0

CumulativePitchingRates(upTo(_), strikes(_)) ==
    LET T == playerPitchingTrendData
        D == filteredPitchingData
    IN  \A k \in 1..Len(T) :
          LET outs == BucketSum(D, T, upTo(k), LAMBDA r : r.outs)
              er == BucketSum(D, T, upTo(k), LAMBDA r : r.er)
              h == BucketSum(D, T, upTo(k), LAMBDA r : r.h)
              bb == BucketSum(D, T, upTo(k), LAMBDA r : r.bb)
              hbp == BucketSum(D, T, upTo(k), LAMBDA r : r.hbp)
              so == BucketSum(D, T, upTo(k), LAMBDA r : r.so)
              s == BucketSum(D, T, strikes(k), LAMBDA r : r.s)
              pitches == BucketSum(D, T, strikes(k), LAMBDA r : r.pitches)
          IN  /\ T[k].era = toFixed(safeDiv(Num(7 * er), Frac(outs, 3)), 2)
              /\ T[k].whip = toFixed(safeDiv(Num(bb + hbp + h), Frac(outs, 3)), 2)
              /\ T[k].kbb = toFixed(safeDiv(Num(so), Num(bb)), 2)
              /\ T[k].kPer7 = toFixed(safeDiv(Num(7 * so), Frac(outs, 3)), 2)
              /\ T[k].bbPer7 = toFixed(safeDiv(Num(7 * (bb + hbp)), Frac(outs, 3)), 2)
              /\ T[k].strikeRate = toFixed(safeDiv(Num(100 * s), Num(pitches)), 1)

AllPitchingRatesAreCumulative ==
    CumulativePitchingRates(LAMBDA k : 1..k, LAMBDA k : 1..k)

\* C9, amended: era, whip, k/bb, k/7 and bb/7 of the pitching bucket at
\* position k come from the counting stats of the buckets 1..k; the strike
\* rate comes from the strikes and pitches of bucket k alone.
PitchingRatesAreCumulativeButStrikeRate ==
    CumulativePitchingRates(LAMBDA k : 1..k, LAMBDA k : {k})

\* A second bucket whose era is not the era of its own period and whose
\* strike rate is not the strike rate of the two periods together.
PitchingRatesWitness ==
    LET T == playerPitchingTrendData
        D == filteredPitchingData
    IN  /\ Len(T) >= 2
        /\ T[2].era # toFixed(safeDiv(
               Num(7 * BucketSum(D, T, {2}, LAMBDA r : r.er)),
               Frac(BucketSum(D, T, {2}, LAMBDA r : r.outs), 3)), 2)
        /\ T[2].strikeRate # toFixed(safeDiv(
               Num(100 * BucketSum(D, T, {1, 2}, LAMBDA r : r.s)),
               Num(BucketSum(D, T, {1, 2}, LAMBDA r : r.pitches))), 1)

\* Are the dated rows of bucket j all earlier than those of bucket k?
Earlier(data, trend, j, k) ==
    \A a, b \in 1..Len(data) :
        /\ InBuckets(data[a], trend, {j}) /\ HoldsDate(data[a].date)
        /\ InBuckets(data[b], trend, {k}) /\ HoldsDate(data[b].date)
        => parseDate(data[a].date, tz).ts < parseDate(data[b].date, tz).ts

\* C8: the buckets of the player trends are emitted in chronological
\* order: of two buckets, the one emitted first covers the earlier
\* date, month or quarter, for every granularity.
BucketsAreChronological ==
    /\ \A j, k \in 1..Len(playerBattingTrendData) :
          j < k => Earlier(filteredBattingData, playerBattingTrendData, j, k)
    /\ \A j, k \in 1..Len(playerPitchingTrendData) :
          j < k => Earlier(filteredPitchingData, playerPitchingTrendData, j, k)

\* C2: a row whose date text holds no date contributes to no bucket of
\* any trend: every trend is what it would be without those rows.
UndatedRowsAreLeftOut ==
    LET b == Filter(filteredBattingData, LAMBDA r : HoldsDate(r.date))
        p == Filter(filteredPitchingData, LAMBDA r : HoldsDate(r.date))
    IN  /\ teamTrendData = TeamTrend(b, p, trendPeriod, tz)
        /\ monthlyBattingTrend = MonthlyBattingTrend(b, tz)
        /\ monthlyPitchingTrend = MonthlyPitchingTrend(p, tz)
        /\ playerBattingTrendData =
             PlayerBattingTrend(b, selectedPlayerId, trendTarget, trendType,
                                trendPeriod, tz)
        /\ playerPitchingTrendData =
             PlayerPitchingTrend(p, selectedPlayerId, trendTarget, trendType,
                                 trendPeriod, tz)

(***************************************************************************)
(* Properties of the filter engine.                                        *)
(***************************************************************************)
\* The calendar day of the date texts of the filter panel, counted from
\* 30 September 2025.
DayOf(s) ==
    CASE s = D0930 -> 0 [] s = D1001 -> 1 [] s = D1001Slash -> 1 [] s = D1002 -> 2

\* startDate <= the day of the row <= endDate, an empty bound being none
InDateRange(row, f) ==
    /\ f.startDate = <<>> \/ DayOf(f.startDate) <= DayOf(row.date)
    /\ f.endDate = <<>> \/ DayOf(row.date) <= DayOf(f.endDate)

NoDateRange(f) == [f EXCEPT !.startDate = <<>>, !.endDate = <<>>]

\* C5: of the rows that pass the other criteria, filterData keeps exactly
\* those dated from startDate to endDate, both days included; an empty
\* startDate or endDate bounds nothing on its side.
DateRangeIsInclusive ==
    /\ filteredBattingData =
         Filter(filterData(battingData, NoDateRange(activeFilters), tz),
                LAMBDA r : InDateRange(r, activeFilters))
    /\ filteredPitchingData =
         Filter(filterData(pitchingData, NoDateRange(activeFilters), tz),
                LAMBDA r : InDateRange(r, activeFilters))

\* The range is the single day 2025-10-01: the batting row of that day is
\* kept, the pitching row of the day after is dropped.
DateRangeWitness ==
    /\ activeFilters = [EmptyFilters EXCEPT !.startDate = D1001, !.endDate = D1001]
    /\ Len(battingData) = 1 /\ battingData[1].date = D1001
    /\ filteredBattingData = battingData
    /\ Len(pitchingData) = 1 /\ pitchingData[1].date = D1002
    /\ filteredPitchingData = <<>>

\* C6: with the filters in the state the application starts in, filtering
\* changes nothing: every row of either data set passes.
DefaultFiltersPassEverything ==
    activeFilters = InitialFilters =>
        /\ filteredBattingData = battingData
        /\ filteredPitchingData = pitchingData

(***************************************************************************)
(* The aggregation tables: rows of players told apart by id, by name, or   *)
(* by both, on two days.                                                   *)
(***************************************************************************)
Identities ==
    {<<"p1", "A">>, <<"p1", "B">>, <<"", "A">>, <<"", "B">>, <<"A", "C">>}

AggBattingLine1 == [BattingRow0 EXCEPT !.pa = 3, !.ab = 3, !.h = 1]
AggBattingLine2 == [BattingRow0 EXCEPT !.pa = 3, !.ab = 2, !.h = 2, !.bb = 1,
                                       !.doubles = 1]

AggBattingRows ==
    {[AggBattingLine1 EXCEPT !.id = x[1], !.name = x[2]] : x \in Identities}
    \cup {AggBattingLine2, [AggBattingLine1 EXCEPT !.date = D0930]}

AggPitchingRows ==
    {[PitchingLine1 EXCEPT !.id = x[1], !.name = x[2]] : x \in Identities}
    \cup {PitchingLine2, [PitchingLine1 EXCEPT !.date = D0930]}

InitAgg ==
    /\ \/ battingData \in SeqsUpTo(AggBattingRows, MaxRows) /\ pitchingData = <<>>
       \/ battingData = <<>> /\ pitchingData \in SeqsUpTo(AggPitchingRows, MaxRows)
    /\ activeFilters = InitialFilters
    /\ draftFilters = InitialFilters
    /\ trendTarget = "team"
    /\ trendType = "batting"
    /\ selectedPlayerId = ""
    /\ trendPeriod = "monthly"
    /\ pending = {"player"}
    /\ ComparisonInit
    /\ call = NoCall
    /\ IoInit
    /\ tz \in TimeZones

NextAgg ==
    \/ DefaultPlayerEffect
    \/ SyncDraftEffect
    \/ \E v \in FilterDates : EditDraftStartDate(v)
    \/ ApplyFilters
    \/ resetFilters

SpecAgg == InitAgg /\ [][NextAgg]_vars

\* the identity of a row or of a summary: the id if present, else the name
Identity(r) == IF r.id # "" THEN r.id ELSE r.name

\* the summaries are one per identity of the rows, each the sum of the
\* rows of its identity
OnePerIdentity(rows, summaries, Stat(_)) ==
    LET ids == {Identity(rows[i]) : i \in 1..Len(rows)}
    IN  /\ Len(summaries) = Cardinality(ids)
        /\ \A x \in ids :
             LET own == Filter(rows, LAMBDA r : Identity(r) = x)
                 at == {i \in 1..Len(summaries) : Identity(summaries[i]) = x}
             IN  /\ Cardinality(at) = 1
                 /\ \A i \in at :
                      /\ summaries[i].games = Len(own)
                      /\ Stat(summaries[i]) = SumOver(own, Stat)

\* C7: the filtered rows are grouped by player identity: rows fall into
\* the same summary iff their identities are equal, and there are as many
\* summaries as distinct identities.
GroupedByIdentity ==
    /\ OnePerIdentity(filteredBattingData, aggregatedBatting, LAMBDA r : r.ab)
    /\ OnePerIdentity(filteredPitchingData, aggregatedPitching, LAMBDA r : r.outs)

\* Two rows with the same id and different names, in one summary.
GroupedByIdentityWitness ==
    /\ Len(filteredBattingData) = 2
    /\ filteredBattingData[1].id = filteredBattingData[2].id
    /\ filteredBattingData[1].id # ""
    /\ filteredBattingData[1].name # filteredBattingData[2].name
    /\ Len(aggregatedBatting) = 1
    /\ aggregatedBatting[1].games = 2

\* C3 as stated: the ops of every batting summary is its obp field plus
\* its slg field (in thousandths).
OpsIsSumOfRoundedParts ==
    \A i \in 1..Len(aggregatedBatting) :
        aggregatedBatting[i].ops = aggregatedBatting[i].obp + aggregatedBatting[i].slg

\* C3, amended: the ops of every batting summary is the sum of the exact
\* obp and the exact slg of its counting stats, rounded to 3 decimals; it
\* is within 0.001 of its obp field plus its slg field.
OpsIsRoundedSumOfExactParts ==
    \A i \in 1..Len(aggregatedBatting) :
        LET s == aggregatedBatting[i]
            obp == safeDiv(Num(s.h + s.bb + s.hbp), Num(s.ab + s.bb + s.hbp + s.sf))
            slg == safeDiv(Num(s.h + s.doubles + 2 * s.triples + 3 * s.hr), Num(s.ab))
        IN  /\ s.ops = toFixed(RAdd(obp, slg), 3)
            /\ s.ops - (s.obp + s.slg) \in {-1, 0, 1}

\* A summary whose ops is not its obp field plus its slg field.
OpsWitness ==
    \E i \in 1..Len(aggregatedBatting) :
        /\ aggregatedBatting[i].ab > 0
        /\ aggregatedBatting[i].ops # aggregatedBatting[i].obp + aggregatedBatting[i].slg

(***************************************************************************)
(* The game log: batting rows and pitching rows of up to three games, one  *)
(* of them without a date, and a batting row without a game id.            *)
(***************************************************************************)
GameBattingRows ==
    {[BattingRow0 EXCEPT !.gameId = "g1", !.date = D1001, !.runs = 5],
     [BattingRow0 EXCEPT !.gameId = "g2", !.date = D1002, !.runs = 3],
     [BattingRow0 EXCEPT !.gameId = "g2", !.date = D1002, !.runs = 1],
     [BattingRow0 EXCEPT !.gameId = "g3", !.date = DText, !.runs = 2],
     [BattingRow0 EXCEPT !.gameId = "", !.date = D1001, !.runs = 7]}

GamePitchingRows ==
    {[PitchingRow0 EXCEPT !.gameId = "g1", !.date = D1001, !.r = 2],
     [PitchingRow0 EXCEPT !.gameId = "g1", !.date = D1001, !.r = 3],
     [PitchingRow0 EXCEPT !.gameId = "g2", !.date = D1002, !.r = 4],
     [PitchingRow0 EXCEPT !.gameId = "g3", !.date = DText, !.r = 2]}

InitGame ==
    /\ battingData \in SeqsUpTo(GameBattingRows, MaxRows)
    /\ pitchingData \in SeqsUpTo(GamePitchingRows, MaxRows)
    /\ activeFilters = InitialFilters
    /\ draftFilters = InitialFilters
    /\ trendTarget = "team"
    /\ trendType = "batting"
    /\ selectedPlayerId = ""
    /\ trendPeriod = "monthly"
    /\ pending = {"player"}
    /\ ComparisonInit
    /\ call = NoCall
    /\ IoInit
    /\ tz \in TimeZones

NextGame ==
    \/ DefaultPlayerEffect
    \/ SyncDraftEffect
    \/ resetFilters

SpecGame == InitGame /\ [][NextGame]_vars

\* C4: the entries of the game log are in the order of their parsed
\* dates; an entry is W, L or T as runsScored is above, below or equal to
\* runsAllowed; the running win percentage of the k-th entry is the number
\* of W among the entries 1..k over k, rounded to 3 decimals.
GameLogIsRunningRecord ==
    LET G == gameByGameStats
    IN  /\ \A j, k \in 1..Len(G) :
             j < k => parseDate(G[j].date, tz).ts <= parseDate(G[k].date, tz).ts
        /\ \A k \in 1..Len(G) :
             /\ G[k].result = "W" <=> G[k].runsScored > G[k].runsAllowed
             /\ G[k].result = "L" <=> G[k].runsScored < G[k].runsAllowed
             /\ G[k].result = "T" <=> G[k].runsScored = G[k].runsAllowed
             /\ G[k].winningPercentage =
                  toFixed(Frac(Cardinality({j \in 1..k : G[j].result = "W"}), k), 3)

\* The scenario of the specification: 5 to 2 and then 3 to 4 is a win at
\* 1.000 and then a loss at 0.500.
GameLogWitness ==
    LET G == gameByGameStats
    IN  /\ Len(G) = 2
        /\ G[1].runsScored = 5 /\ G[1].runsAllowed = 2
        /\ G[1].result = "W" /\ G[1].winningPercentage = 1000
        /\ G[2].runsScored = 3 /\ G[2].runsAllowed = 4
        /\ G[2].result = "L" /\ G[2].winningPercentage = 500

(***************************************************************************)
(* safeDiv as a function: every call with two finite numbers, integers     *)
(* and thirds (an innings value is outs / 3) of either sign.               *)
(***************************************************************************)
\* the largest numerator of an argument of an observed call
MaxCallNum == 3

CallNumbers ==
    {JsNumber(Frac(n, d)) : n \in (-MaxCallNum)..MaxCallNum, d \in {1, 3}}

InitSafeDiv ==
    /\ battingData = <<>>
    /\ pitchingData = <<>>
    /\ activeFilters = InitialFilters
    /\ draftFilters = InitialFilters
    /\ trendTarget = "team"
    /\ trendType = "batting"
    /\ selectedPlayerId = ""
    /\ trendPeriod = "monthly"
    /\ ComparisonInit
    /\ pending = {}
    /\ IoInit
    /\ tz \in TimeZones
    /\ \E a \in CallNumbers, b \in CallNumbers :
          call = [a |-> a, b |-> b, ret |-> JsUndefined, done |-> FALSE]

\* one evaluation of safeDiv(call.a, call.b), App.jsx:44
CallSafeDiv ==
    /\ ~call.done
    /\ call' = [call EXCEPT !.ret = safeDivValue(call.a, call.b), !.done = TRUE]
    /\ UNCHANGED <<dataVars, filterVars, trendVars, cmpVars, pending, tz, ioVars>>

NextSafeDiv == CallSafeDiv

SpecSafeDiv == InitSafeDiv /\ [][NextSafeDiv]_vars

\* C11: for finite numbers a and b, safeDiv(a, b) is a finite number: it is
\* 0 when b is 0 (whatever a is), 0 when a is 0, and otherwise the exact
\* quotient a / b, the number q with q * b = a; it is never NaN and never
\* an infinity.
SafeDivIsTotal ==
    call.done =>
        LET a == call.a.v
            b == call.b.v
            q == call.ret.v
        IN  /\ call.ret.t = "number"
            /\ b.n = 0 => q.n = 0
            /\ a.n = 0 => q.n = 0
            /\ b.n # 0 => q.n * b.n * a.d = a.n * q.d * b.d

\* a call with a zero divisor and a non-zero dividend has returned
SafeDivWitness ==
    call.done /\ call.b.v.n = 0 /\ call.a.v.n # 0

(***************************************************************************)
(* The aggregations over decoded cells: rows of two players whose at-bat   *)
(* and hit cells (batting) or outs and earned-run cells (pitching) hold a  *)
(* number, a dash, nothing, or are absent from the file.                   *)
(***************************************************************************)
CellValues ==
    {JsUndefined, JsString(<<>>), JsNumber(Num(0)), JsNumber(Num(2)),
     JsString(<<"-">>)}

\* a batting row of a file that has only the identity columns
BattingCellRow0 ==
    [id |-> "p1", name |-> "A", number |-> <<"1">>, date |-> D1001,
     gameId |-> "g1", title |-> "", away |-> <<>>, home |-> <<>>,
     scoreText |-> "",
     pa |-> JsUndefined, ab |-> JsUndefined, h |-> JsUndefined,
     doubles |-> JsUndefined, triples |-> JsUndefined, hr |-> JsUndefined,
     rbi |-> JsUndefined, runs |-> JsUndefined, so |-> JsUndefined,
     bb |-> JsUndefined, hbp |-> JsUndefined, sb |-> JsUndefined,
     sf |-> JsUndefined, sac |-> JsUndefined]

PitchingCellRow0 ==
    [id |-> "p1", name |-> "A", number |-> <<"1">>, date |-> D1001,
     gameId |-> "g1", title |-> "", away |-> <<>>, home |-> <<>>,
     scoreText |-> "",
     outs |-> JsUndefined, h |-> JsUndefined, r |-> JsUndefined,
     er |-> JsUndefined, bb |-> JsUndefined, hbp |-> JsUndefined,
     so |-> JsUndefined, win |-> JsUndefined, loss |-> JsUndefined,
     sv |-> JsUndefined, s |-> JsUndefined, pitches |-> JsUndefined]

CellBattingRows ==
    {[BattingCellRow0 EXCEPT !.id = i, !.ab = c, !.h = JsNumber(Num(1))] :
        i \in {"p1", "p2"}, c \in CellValues}
    \cup {[BattingCellRow0 EXCEPT !.ab = JsNumber(Num(2)), !.h = c] :
            c \in CellValues}

CellPitchingRows ==
    {[PitchingCellRow0 EXCEPT !.id = i, !.outs = c, !.er = JsNumber(Num(1))] :
        i \in {"p1", "p2"}, c \in CellValues}
    \cup {[PitchingCellRow0 EXCEPT !.outs = JsNumber(Num(2)), !.er = c] :
            c \in CellValues}

\* The application with a batting file or a pitching file loaded.
InitCells ==
    /\ \/ battingData \in SeqsUpTo(CellBattingRows, MaxRows) /\ pitchingData = <<>>
       \/ battingData = <<>> /\ pitchingData \in SeqsUpTo(CellPitchingRows, MaxRows)
    /\ activeFilters = InitialFilters
    /\ draftFilters = InitialFilters
    /\ trendTarget = "team"
    /\ trendType = "batting"
    /\ selectedPlayerId = ""
    /\ trendPeriod = "monthly"
    /\ ComparisonInit
    /\ call = NoCall
    /\ IoInit
    /\ pending = {"player"}
    /\ tz \in TimeZones

NextCells ==
    \/ DefaultPlayerEffect
    \/ SyncDraftEffect
    \/ resetFilters

SpecCells == InitCells /\ [][NextCells]_vars

\* the six batting rates and the three pitching rates of a summary
RatesOf(summary) ==
    IF "avg" \in DOMAIN summary
    THEN {summary.avg, summary.obp, summary.slg, summary.ops, summary.bbK,
          summary.isoD}
    ELSE {summary.era, summary.whip, summary.kbb}

\* C12: every derived rate of every batting summary and of every pitching
\* summary is a finite number, whatever the numeric cells of the filtered
\* rows hold: a number, nothing, a text that is not a numeral, or no cell at
\* all.
RatesAreFiniteNumbers ==
    LET B == BattingCellSummaries(filteredBattingData)
        P == PitchingCellSummaries(filteredPitchingData)
    IN  /\ \A i \in 1..Len(B) : \A x \in RatesOf(B[i]) : x.t = "number"
        /\ \A i \in 1..Len(P) : \A x \in RatesOf(P[i]) : x.t = "number"

(***************************************************************************)
(* Malformed rows: files without a date column, rows with an empty date,   *)
(* without a game id, without a name and without team names.               *)
(***************************************************************************)
MalformedBattingRows ==
    {[BattingRow0 EXCEPT !.date = d, !.gameId = g, !.name = n, !.runs = 1] :
        d \in {Undefined, <<>>, D1001}, g \in {"", "g1"}, n \in {"", "A"}}

MalformedPitchingRows ==
    {[PitchingRow0 EXCEPT !.date = d, !.gameId = g, !.r = 1] :
        d \in {Undefined, <<>>}, g \in {"", "g1"}}

InitMalformed ==
    /\ battingData \in SeqsUpTo(MalformedBattingRows, MaxAppRows)
    /\ pitchingData \in SeqsUpTo(MalformedPitchingRows, MaxAppRows)
    /\ activeFilters = InitialFilters
    /\ draftFilters = InitialFilters
    /\ trendTarget = "team"
    /\ trendType = "batting"
    /\ selectedPlayerId = ""
    /\ trendPeriod = "monthly"
    /\ ComparisonInit
    /\ call = NoCall
    /\ IoInit
    /\ pending = {"player"}
    /\ tz \in TimeZones

NextMalformed ==
    \/ DefaultPlayerEffect
    \/ SyncDraftEffect
    \/ resetFilters

SpecMalformed == InitMalformed /\ [][NextMalformed]_vars

\* C13: no core operation throws on rows that are present but malformed
\* (no date, no game id, no name, no team names).  Filtering, the
\* aggregations, the trend bucketing, the rankings and the correlation
\* data have no step that can throw on such rows; the derivation of the
\* game outcomes is the one operation that calls a method on a row's field.
NoCoreOperationThrows ==
    ~gameByGameStatsThrows

(***************************************************************************)
(* The comparison panel: three batters (two of them with the same          *)
(* average, 10 and 5 home runs) and three pitchers (era 2.50 and 3.00 with *)
(* the whip in the opposite order, and one who got nobody out).            *)
(***************************************************************************)
RankBattingRows ==
    {[BattingRow0 EXCEPT !.id = "p1", !.name = "A", !.pa = 20, !.ab = 20,
                         !.h = 10, !.hr = 10],
     [BattingRow0 EXCEPT !.id = "p2", !.name = "B", !.number = <<"2">>,
                         !.pa = 10, !.ab = 10, !.h = 5, !.hr = 5],
     [BattingRow0 EXCEPT !.id = "p3", !.name = "C", !.number = <<"3">>,
                         !.pa = 1, !.ab = 1, !.so = 1]}

RankPitchingRows ==
    {[PitchingRow0 EXCEPT !.id = "p1", !.name = "A", !.outs = 42, !.er = 5,
                          !.h = 20, !.so = 3, !.win = 1],
     [PitchingRow0 EXCEPT !.id = "p2", !.name = "B", !.number = <<"2">>,
                          !.outs = 21, !.er = 3, !.h = 2, !.so = 5],
     [PitchingRow0 EXCEPT !.id = "p3", !.name = "C", !.number = <<"3">>,
                          !.er = 1, !.bb = 1]}

\* what the threshold input can hold (a number input with min 0)
Thresholds == {Num(0), Num(1), Num(10)}

\* The application with a batting file or a pitching file loaded.  The
\* rows are all dated 2025-10-01 and pass the initial filters in every
\* zone, so one zone stands for all.
InitRank ==
    /\ \/ battingData \in SeqsUpTo(RankBattingRows, MaxRows) /\ pitchingData = <<>>
       \/ battingData = <<>> /\ pitchingData \in SeqsUpTo(RankPitchingRows, MaxRows)
    /\ activeFilters = InitialFilters
    /\ draftFilters = InitialFilters
    /\ trendTarget = "team"
    /\ trendType = "batting"
    /\ selectedPlayerId = ""
    /\ trendPeriod = "monthly"
    /\ ComparisonInit
    /\ call = NoCall
    /\ IoInit
    /\ pending = {"player"}
    /\ tz = 9

NextRank ==
    \/ DefaultPlayerEffect
    \/ ScatterAxesEffect
    \/ MetricEffect
    \/ \E v \in {"batting", "pitching"} : setComparisonDataType(v)
    \/ \E v \in {"ranking", "scatter"} : setComparisonChartType(v)
    \/ \E v \in Thresholds : setComparisonMinPA(v)
    \/ \E v \in Range(battingMetricOptions) \cup Range(pitchingMetricOptions) :
          setComparisonMetric(v)
    \/ \E v \in {"hr", "displayInnings"} : setScatterX(v)
    \/ \E v \in {"slg", "whip"} : setScatterY(v)

SpecRank == InitRank /\ [][NextRank]_vars

\* x <= y of two numbers
NumLeq(x, y) == x.v.n * y.v.d <= y.v.n * x.v.d

\* the values read from the entries of a list are in ascending (asc) or
\* descending order, with the entries that have no value after the others
OrderedWithMissingLast(values, asc) ==
    \A i, j \in 1..Len(values) :
        i < j =>
          /\ values[i].t = "undefined" => values[j].t = "undefined"
          /\ values[i].t = "number" /\ values[j].t = "number" =>
                IF asc THEN NumLeq(values[i], values[j])
                ELSE NumLeq(values[j], values[i])

\* C14: rankingData is in ascending order of value when the metric is era
\* or whip and in descending order for every other metric, and entries
\* without a value come after all entries with one; the lists of the
\* all-rankings view are ordered the same way (era and whip ascending, the
\* other keys descending).
RankingIsOrdered ==
    LET R  == rankingData
        FP == RankingsFilteredPitching
        FB == RankingsFilteredBatting
    IN  /\ OrderedWithMissingLast([i \in 1..Len(R) |-> R[i].value],
                                  comparisonMetric \in {"era", "whip"})
        /\ \A showAll \in BOOLEAN :
             /\ \A key \in {"era", "whip"} :
                   LET L == RankingList(FP, key, TRUE, showAll)
                   IN  OrderedWithMissingLast([i \in 1..Len(L) |-> Prop(L[i], key)],
                                              TRUE)
             /\ \A key \in {"so", "win", "kbb", "inningsVal", "sv"} :
                   LET L == RankingList(FP, key, FALSE, showAll)
                   IN  OrderedWithMissingLast([i \in 1..Len(L) |-> Prop(L[i], key)],
                                              FALSE)
             /\ \A key \in {"avg", "ops", "obp", "slg", "hr", "rbi", "sb", "bb"} :
                   LET L == RankingList(FB, key, FALSE, showAll)
                   IN  OrderedWithMissingLast([i \in 1..Len(L) |-> Prop(L[i], key)],
                                              FALSE)

\* the whip ranking of two pitchers whose order by whip is the reverse of
\* their order by era
RankingWitness ==
    /\ comparisonDataType = "pitching"
    /\ comparisonMetric = "whip"
    /\ LET R == rankingData
       IN  /\ Len(R) = 2
           /\ R[1].value # R[2].value
           /\ R[1].name # aggregatedPitching[1].name

\* C15: the game list has exactly one entry for each distinct non-empty
\* game id of the filtered batting rows; an entry's runsScored is the sum of
\* the runs of the batting rows with its id and its runsAllowed the sum of
\* the runs allowed of the filtered pitching rows with its id.  Batting rows
\* without an id make no entry; pitching rows whose id no batting row has
\* change nothing.
GameListMatchesRows ==
    LET G == gameByGameStats
        B == filteredBattingData
        P == filteredPitchingData
        ids == {B[i].gameId : i \in 1..Len(B)} \ {""}
    IN  /\ {G[k].id : k \in 1..Len(G)} = ids
        /\ Len(G) = Cardinality(ids)
        /\ \A k \in 1..Len(G) :
              /\ G[k].runsScored =
                    SumOver(B, LAMBDA r : IF r.gameId = G[k].id THEN r.runs ELSE 0)
              /\ G[k].runsAllowed =
                    SumOver(P, LAMBDA r : IF r.gameId = G[k].id THEN r.r ELSE 0)

\* two batting rows of one game, a pitching row of that game and one of a
\* game without batting rows
GameListWitness ==
    LET G == gameByGameStats
        B == filteredBattingData
        P == filteredPitchingData
    IN  /\ Len(B) = 2 /\ Len(P) = 2 /\ Len(G) = 1
        /\ G[1].runsScored = B[1].runs + B[2].runs
        /\ G[1].runsAllowed > 0
        /\ \E i \in 1..2 : P[i].gameId # G[1].id

\* the opponent named by a row: the away team when the home team's name
\* contains one of the two aliases, the home team otherwise, and the
\* placeholder when that name is empty
ResolvedOpponent(row) ==
    LET name == IF includes(row.home, HomeAlias1) \/ includes(row.home, HomeAlias2)
                THEN row.away ELSE row.home
    IN  IF name = <<>> THEN Unknown ELSE name

\* C16: wherever an opponent is resolved for a game (the buckets of the
\* player batting and pitching game trends, the keys of the team game trend
\* and the entries of the game list) it is the away team when the home team
\* carries an alias, the home team otherwise, and the placeholder when that
\* name is empty.
OpponentIsResolvedEverywhere ==
    LET B  == filteredBattingData
        P  == filteredPitchingData
        PB == playerBattingTrendData
        PP == playerPitchingTrendData
        T  == teamTrendData
        G  == gameByGameStats
    IN  /\ trendPeriod = "game" =>
              /\ \A k \in 1..Len(PB) : \E i \in 1..Len(B) :
                    /\ B[i].date = PB[k].periodKey
                    /\ PB[k].opponent = ResolvedOpponent(B[i])
              /\ \A k \in 1..Len(PP) : \E i \in 1..Len(P) :
                    /\ P[i].date = PP[k].periodKey
                    /\ PP[k].opponent = ResolvedOpponent(P[i])
              /\ \A k \in 1..Len(T.batting) : \E i \in 1..Len(B) :
                    T.batting[k].periodKey =
                      B[i].date \o <<" ", "v", "s", " ">> \o ResolvedOpponent(B[i])
              /\ \A k \in 1..Len(T.pitching) : \E i \in 1..Len(P) :
                    T.pitching[k].periodKey =
                      P[i].date \o <<" ", "v", "s", " ">> \o ResolvedOpponent(P[i])
        /\ \A k \in 1..Len(G) : \E i \in 1..Len(B) :
              B[i].gameId = G[k].id /\ G[k].opponent = ResolvedOpponent(B[i])

\* the team names of the filter panel's rows that contain the keyword,
\* whatever the case of the letters
NamesWithKeyword(kw) == IF kw = <<"b">> THEN {TeamB} ELSE {}

\* the three criteria of a row, each with a filter that is not set passing
\* every row
PassesEveryCriterion(row, f) ==
    /\ InDateRange(row, f)
    /\ \/ f.teamKeyword = <<>>
       \/ row.away \in NamesWithKeyword(f.teamKeyword)
       \/ row.home \in NamesWithKeyword(f.teamKeyword)
    /\ f.category = "all" \/ row.title = f.category

\* C17: filterData returns exactly the rows that meet all the active
\* criteria together: dated within startDate..endDate, with the keyword in
\* the name of the home team or of the away team (letter case ignored), and
\* titled as the category unless the category is 'all'.
FilterIsConjunction ==
    /\ filteredBattingData =
         Filter(battingData, LAMBDA r : PassesEveryCriterion(r, activeFilters))
    /\ filteredPitchingData =
         Filter(pitchingData, LAMBDA r : PassesEveryCriterion(r, activeFilters))

\* All three criteria are set: a batting row that meets them all (the
\* keyword through its away team only) is kept, a pitching row is dropped.
FilterWitness ==
    /\ activeFilters.startDate # <<>>
    /\ activeFilters.teamKeyword # <<>>
    /\ activeFilters.category # "all"
    /\ Len(battingData) = 1 /\ filteredBattingData = battingData
    /\ battingData[1].home \notin NamesWithKeyword(activeFilters.teamKeyword)
    /\ Len(pitchingData) = 1 /\ filteredPitchingData = <<>>

\* C18: a row whose date cannot be parsed is never left out of the filter
\* result because of its date: it is in the result whenever it meets the
\* keyword and category criteria, whatever startDate and endDate are.
UnparseableDateNeverExcludes ==
    /\ \A i \in 1..Len(battingData) :
          battingData[i].date = DText =>
            (filterRow(battingData[i], NoDateRange(activeFilters), tz)
               => battingData[i] \in Range(filteredBattingData))
    /\ \A i \in 1..Len(pitchingData) :
          pitchingData[i].date = DText =>
            (filterRow(pitchingData[i], NoDateRange(activeFilters), tz)
               => pitchingData[i] \in Range(filteredPitchingData))

\* the summaries of the current data type
ComparedSummaries ==
    IF comparisonDataType = "pitching" THEN aggregatedPitching ELSE aggregatedBatting

\* a summary's usage reaches the threshold: plate appearances for a batter,
\* outs / 3 for a pitcher
MeetsThreshold(p) ==
    IF comparisonDataType = "pitching"
    THEN p.outs * comparisonMinPA.d >= 3 * comparisonMinPA.n
    ELSE p.pa * comparisonMinPA.d >= comparisonMinPA.n

\* C19: rankingData and comparisonScatterData hold one entry for each
\* summary of the current data type whose usage reaches the threshold and
\* no other entry; no entry is dropped for its value or for the size z.
ThresholdSelectsEntries ==
    LET S == ComparedSummaries
        R == rankingData
        C == comparisonScatterData
        kept == {i \in 1..Len(S) : MeetsThreshold(S[i])}
    IN  /\ Len(R) = Cardinality(kept)
        /\ Len(C) = Cardinality(kept)
        /\ \A i \in kept :
              /\ \E k \in 1..Len(R) : R[k].name = S[i].name
              /\ \E k \in 1..Len(C) :
                    /\ C[k].name = S[i].name
                    /\ C[k].x = Prop(S[i], scatterX)
                    /\ C[k].y = Prop(S[i], scatterY)
        /\ \A i \in (1..Len(S)) \ kept :
              /\ \A k \in 1..Len(R) : R[k].name # S[i].name
              /\ \A k \in 1..Len(C) : C[k].name # S[i].name

\* threshold 10: the batter with exactly 10 plate appearances is kept, the
\* batter with 1 is dropped
ThresholdWitness ==
    /\ comparisonDataType = "batting"
    /\ comparisonMinPA = Num(10)
    /\ Len(aggregatedBatting) = 2
    /\ LET R == rankingData
           C == comparisonScatterData
       IN  /\ Len(R) = 1 /\ R[1].name = "B"
           /\ Len(C) = 1 /\ C[1].name = "B"

\* C20: the batting summaries are in order of non-increasing avg and the
\* pitching summaries in order of non-decreasing era.
SummariesAreSorted ==
    LET B == aggregatedBatting
        P == aggregatedPitching
    IN  /\ \A i, j \in 1..Len(B) : i < j => B[i].avg >= B[j].avg
        /\ \A i, j \in 1..Len(P) : i < j => P[i].era <= P[j].era

\* two batters whose order in the file is the reverse of their order by avg
SummariesWitness ==
    LET B == aggregatedBatting
    IN  /\ Len(B) = 2
        /\ B[1].avg > B[2].avg
        /\ B[1].id = filteredBattingData[2].id

(***************************************************************************)
(* The pitching summaries of one pitcher over appearances of zero to six   *)
(* and of nine outs, without runs or with seven earned runs, two hits, a   *)
(* walk and a hit batter.                                                   *)
(***************************************************************************)
PitchOuts == {0, 1, 2, 3, 4, 5, 6, 9}

PitchLineRows ==
    {[PitchingRow0 EXCEPT !.outs = o] : o \in PitchOuts}
    \cup {[PitchingRow0 EXCEPT !.outs = o, !.er = 7, !.r = 7, !.h = 2,
                               !.bb = 1, !.hbp = 1] : o \in PitchOuts}

InitPitch ==
    /\ battingData = <<>>
    /\ pitchingData \in SeqsUpTo(PitchLineRows, MaxRows)
    /\ activeFilters = InitialFilters
    /\ draftFilters = InitialFilters
    /\ trendTarget = "team"
    /\ trendType = "batting"
    /\ selectedPlayerId = ""
    /\ trendPeriod = "monthly"
    /\ ComparisonInit
    /\ call = NoCall
    /\ IoInit
    /\ pending = {"player"}
    /\ tz \in TimeZones

NextPitch ==
    \/ DefaultPlayerEffect
    \/ SyncDraftEffect
    \/ \E v \in FilterDates : EditDraftStartDate(v)
    \/ ApplyFilters
    \/ resetFilters

SpecPitch == InitPitch /\ [][NextPitch]_vars

\* e hundredths is n / d rounded to two decimals, halves upwards
RoundsToHundredths(e, n, d) ==
    /\ 2 * e * d - d =< 200 * n
    /\ 200 * n < 2 * e * d + d

InningsText(n) ==
    NumToStr(n \div 3) \o
    (CASE n % 3 = 0 -> <<>>
       [] n % 3 = 1 -> <<".", "1">>
       [] n % 3 = 2 -> <<".", "2">>)

\* "0", "0.1", "0.2", "1", "1.1", "1.2", "2" for 0 to 6 outs
InningsTable ==
    << <<"0">>, <<"0", ".", "1">>, <<"0", ".", "2">>, <<"1">>,
       <<"1", ".", "1">>, <<"1", ".", "2">>, <<"2">> >>

\* C22: the innings text of a pitcher with n outs is floor(n / 3) followed
\* by ".1" or ".2" when n mod 3 is 1 or 2 and by nothing when it is 0; the
\* texts of 0 to 6 outs are "0", "0.1", "0.2", "1", "1.1", "1.2", "2".
InningsDisplayIsThirds ==
    LET P == aggregatedPitching
    IN  \A i \in 1..Len(P) :
           /\ P[i].displayInnings = InningsText(P[i].outs)
           /\ P[i].outs =< 6 => P[i].displayInnings = InningsTable[P[i].outs + 1]
           /\ P[i].displayInnings[Len(P[i].displayInnings)] \notin {"."}
           /\ Len(P[i].displayInnings) >= 2 /\
              P[i].displayInnings[Len(P[i].displayInnings) - 1] = "."
                 => P[i].displayInnings[Len(P[i].displayInnings)] \in {"1", "2"}

\* a pitcher with five outs and one with three are shown as "1.2" and "1"
InningsWitness ==
    LET P == aggregatedPitching
    IN  /\ Len(P) = 1
        /\ \/ P[1].outs = 5 /\ P[1].displayInnings = <<"1", ".", "2">>
           \/ P[1].outs = 3 /\ P[1].displayInnings = <<"1">>
        /\ Len(pitchingData) = 2

(***************************************************************************)
(* The team trend over rows of September and October 2025 and rows whose   *)
(* date is no date, in the three granularities.                            *)
(***************************************************************************)
TeamBattingRows ==
    {[BattingLine1 EXCEPT !.date = d] : d \in {D0905Short, D1001, DText}}
    \cup {[BattingLine2 EXCEPT !.date = D1002, !.id = "p2", !.name = "B",
                               !.runs = 2, !.sb = 1, !.sac = 1]}

TeamPitchingRows ==
    {[PitchingLine1 EXCEPT !.date = d] : d \in {D0905Short, D1001, DText}}
    \cup {[PitchingLine2 EXCEPT !.date = D1002, !.id = "p2", !.name = "B",
                                !.r = 1, !.win = 1, !.sv = 1, !.loss = 1]}

InitTeam ==
    /\ \/ battingData \in SeqsUpTo(TeamBattingRows, MaxRows) /\ pitchingData = <<>>
       \/ battingData = <<>> /\ pitchingData \in SeqsUpTo(TeamPitchingRows, MaxRows)
    /\ activeFilters = InitialFilters
    /\ draftFilters = InitialFilters
    /\ trendTarget = "team"
    /\ trendType = "batting"
    /\ selectedPlayerId = ""
    /\ trendPeriod = "monthly"
    /\ pending = {"player"}
    /\ ComparisonInit
    /\ call = NoCall
    /\ IoInit
    /\ tz \in TimeZones

NextTeam ==
    \/ DefaultPlayerEffect
    \/ SyncDraftEffect
    \/ resetFilters
    \/ \E v \in {"game", "monthly", "quarterly"} : setTrendPeriod(v)

SpecTeam == InitTeam /\ [][NextTeam]_vars

\* the year and the month (1..12) written in a date text
WrittenYear(s) == parseInt(SplitDate(s, <<>>)[1]).val
WrittenMonth(s) == parseInt(SplitDate(s, <<>>)[2]).val

\* YEAR-MM, zero-padded, or YEAR-Q{1..4}
PeriodText(s, period) ==
    IF period = "quarterly"
    THEN NumToStr(WrittenYear(s)) \o <<"-", "Q">>
            \o <<(<<"1", "2", "3", "4">>)[(WrittenMonth(s) - 1) \div 3 + 1]>>
    ELSE NumToStr(WrittenYear(s)) \o <<"-">>
            \o (IF WrittenMonth(s) < 10 THEN <<"0">> ELSE <<>>)
            \o NumToStr(WrittenMonth(s))

\* the sequence without its j-th element
RemoveAt(s, j) == [i \in 1..(Len(s) - 1) |-> IF i < j THEN s[i] ELSE s[i + 1]]

\* C23: in the monthly and quarterly team trend every filtered row with a
\* parseable date falls into exactly one bucket, keyed YEAR-MM or
\* YEAR-Q{1..4} by the month written in its date, and a bucket is what the
\* rows of its own period alone produce: taking a row of another period
\* away leaves it unchanged.
TeamBucketsArePerPeriod ==
    LET T == teamTrendData
        B == filteredBattingData
        P == filteredPitchingData
        own(rows, key) ==
            Filter(rows, LAMBDA r : teamGetKey(r, trendPeriod, tz) = Key(key))
    IN  trendPeriod \in {"monthly", "quarterly"} =>
          /\ \A i \in 1..Len(B) : HoldsDate(B[i].date) =>
                Cardinality({k \in 1..Len(T.batting) :
                    T.batting[k].periodKey = PeriodText(B[i].date, trendPeriod)}) = 1
          /\ \A i \in 1..Len(P) : HoldsDate(P[i].date) =>
                Cardinality({k \in 1..Len(T.pitching) :
                    T.pitching[k].periodKey = PeriodText(P[i].date, trendPeriod)}) = 1
          /\ \A k \in 1..Len(T.batting) :
                /\ TeamTrend(own(B, T.batting[k].periodKey), <<>>, trendPeriod, tz).batting
                      = <<T.batting[k]>>
                /\ T.batting[k].ab =
                      SumOver(B, LAMBDA r : IF HoldsDate(r.date) /\
                          PeriodText(r.date, trendPeriod) = T.batting[k].periodKey
                          THEN r.ab ELSE 0)
                   \/ \E i \in 1..Len(B) : ~HoldsDate(B[i].date)
                /\ \A j \in 1..Len(B) :
                      teamGetKey(B[j], trendPeriod, tz) # Key(T.batting[k].periodKey)
                      => T.batting[k] \in
                            Range(TeamTrend(RemoveAt(B, j), P, trendPeriod, tz).batting)
          /\ \A k \in 1..Len(T.pitching) :
                /\ TeamTrend(<<>>, own(P, T.pitching[k].periodKey), trendPeriod, tz).pitching
                      = <<T.pitching[k]>>
                /\ \A j \in 1..Len(P) :
                      teamGetKey(P[j], trendPeriod, tz) # Key(T.pitching[k].periodKey)
                      => T.pitching[k] \in
                            Range(TeamTrend(B, RemoveAt(P, j), trendPeriod, tz).pitching)

\* rows of September and of October are shown in the quarterly team
\* trend as the buckets 2025-Q3 and 2025-Q4, each with its own at-bats
TeamBucketsWitness ==
    LET T == teamTrendData
        B == filteredBattingData
    IN  /\ trendPeriod = "quarterly"
        /\ Len(B) = 2 /\ B[1].date = D1001 /\ B[2].date = D0905Short
        /\ Len(T.batting) = 2
        /\ T.batting[1].periodKey = <<"2", "0", "2", "5", "-", "Q", "3">>
        /\ T.batting[2].periodKey = <<"2", "0", "2", "5", "-", "Q", "4">>
        /\ T.batting[1].ab = B[2].ab /\ T.batting[2].ab = B[1].ab

(***************************************************************************)
(* The filter panel over a loaded data set: three batting and two          *)
(* pitching rows around the first of October.                              *)
(***************************************************************************)
PanelBatting ==
    <<[BattingRow0 EXCEPT !.date = D0930, !.title = "A", !.away = TeamAri, !.home = TeamB],
      [BattingRow0 EXCEPT !.date = D1001, !.title = "A", !.away = TeamB, !.home = TeamAnt],
      [BattingRow0 EXCEPT !.date = D1002, !.title = "B", !.away = TeamAri, !.home = TeamAnt]>>

PanelPitching ==
    <<[PitchingRow0 EXCEPT !.date = D1002, !.title = "B", !.away = TeamAri, !.home = TeamAnt]>>

InitPanel ==
    /\ battingData = PanelBatting
    /\ pitchingData = PanelPitching
    /\ activeFilters = InitialFilters
    /\ draftFilters = InitialFilters
    /\ trendTarget = "team"
    /\ trendType = "batting"
    /\ selectedPlayerId = ""
    /\ trendPeriod = "monthly"
    /\ ComparisonInit
    /\ call = NoCall
    /\ IoInit
    /\ pending = {"draft", "player"}
    /\ tz \in TimeZones

NextPanel ==
    \/ SyncDraftEffect
    \/ DefaultPlayerEffect
    \/ \E v \in {<<>>, D1002} : EditDraftStartDate(v)
    \/ \E v \in {<<>>, D1001} : EditDraftEndDate(v)
    \/ \E v \in {<<>>, TeamB} : EditDraftTeamKeyword(v)
    \/ \E v \in {"all", "A"} : EditDraftCategory(v)
    \/ ApplyFilters
    \/ resetFilters

SpecPanel == InitPanel /\ [][NextPanel]_vars

\* what the panels derive from the rows b and p under the filters f: the
\* filtered rows and the summaries aggregated from them
FilteredOutput(b, p, f, zone) ==
    <<filterData(b, f, zone), filterData(p, f, zone),
      AggregateBatting(filterData(b, f, zone)),
      AggregatePitching(filterData(p, f, zone))>>

\* C24: a step that edits the draft filters leaves activeFilters and the
\* derived rows and summaries as they are; activeFilters only ever becomes the current
\* draft (Apply) or the empty filters with category "all" (Reset), and
\* each such change schedules the effect after which draftFilters equals
\* activeFilters.
DraftEditsAreLocal ==
    [][/\ (draftFilters' # draftFilters /\ "draft" \notin pending) =>
             /\ activeFilters' = activeFilters
             /\ FilteredOutput(battingData', pitchingData', activeFilters', tz')
                   = FilteredOutput(battingData, pitchingData, activeFilters, tz)
             /\ UNCHANGED <<dataVars, trendVars, cmpVars>>
       /\ activeFilters' # activeFilters =>
             /\ activeFilters' \in {draftFilters, EmptyFilters}
             /\ "draft" \in pending'
       /\ ("draft" \in pending /\ "draft" \notin pending') =>
             draftFilters' = activeFilters'
      ]_vars

\* an edited draft beside applied filters that are neither the initial nor
\* the empty ones: Apply has run, its effect has settled, and the draft
\* has been edited again
DraftEditsWitness ==
    /\ Idle
    /\ activeFilters \notin {InitialFilters, EmptyFilters}
    /\ draftFilters # activeFilters
    /\ draftFilters.startDate # activeFilters.startDate
    /\ battingData # <<>>

(***************************************************************************)
(* Uploads and sample loads with their awaits.  handleFileUpload copies    *)
(* battingData and pitchingData of the render it was called in             *)
(* (App.jsx:240-241), awaits the text of each file (247) and then installs *)
(* and stores the copies with the files' rows put in (259-264);            *)
(* loadDefaultData awaits two fetches (221-225) and installs the sample    *)
(* rows (226-227).  Whatever else completes during an await runs in        *)
(* between.                                                                *)
(***************************************************************************)
\* how many uploads and loads may await at once
MaxInFlight == 2

\* the files a user uploads: rows of a second player
FileBatting ==
    <<[BattingRow0 EXCEPT !.id = "p2", !.name = "B", !.number = <<"2">>,
                          !.pa = 1, !.ab = 1, !.h = 1]>>

FilePitching ==
    <<[PitchingRow0 EXCEPT !.id = "p2", !.name = "B", !.number = <<"2">>,
                           !.outs = 3]>>

\* loadDefaultData up to its first await, App.jsx:219-224
SampleLoad ==
    [kind |-> "load", newBatting |-> <<>>, newPitching |-> <<>>,
     hasBatting |-> TRUE, fileBatting |-> SampleBatting,
     hasPitching |-> TRUE, filePitching |-> SamplePitching]

\* handleFileUpload up to its first await, App.jsx:238-247
handleFileUploadStart(hasBatting, batting, hasPitching, pitching) ==
    /\ Idle
    /\ hasBatting \/ hasPitching
    /\ Len(inflight) < MaxInFlight
    /\ inflight' = Append(inflight,
          [kind |-> "upload", newBatting |-> battingData,
           newPitching |-> pitchingData,
           hasBatting |-> hasBatting, fileBatting |-> batting,
           hasPitching |-> hasPitching, filePitching |-> pitching])
    /\ UNCHANGED <<dataVars, filterVars, trendVars, pending, tz, cmpVars, call,
                   storage>>

\* handleFileUpload after its awaits, App.jsx:248-266
handleFileUploadResume(i) ==
    /\ Idle
    /\ i \in 1..Len(inflight)
    /\ inflight[i].kind = "upload"
    /\ LET u == inflight[i]
           newBatting == IF u.hasBatting THEN u.fileBatting ELSE u.newBatting
           newPitching == IF u.hasPitching THEN u.filePitching ELSE u.newPitching
       IN  /\ battingData' = newBatting
           /\ pitchingData' = newPitching
           /\ storage' = [present |-> TRUE, batting |-> newBatting,
                          pitching |-> newPitching]
    /\ inflight' = RemoveAt(inflight, i)
    /\ pending' = {"player"}
    /\ UNCHANGED <<filterVars, trendVars, tz, cmpVars, call>>

\* clearData once confirmed, App.jsx:271-278: the stored keys are removed
\* and the sample load starts
clearData ==
    /\ Idle
    /\ Len(inflight) < MaxInFlight
    /\ storage' = NoStorage
    /\ inflight' = Append(inflight, SampleLoad)
    /\ UNCHANGED <<dataVars, filterVars, trendVars, pending, tz, cmpVars, call>>

\* loadDefaultData after its awaits, App.jsx:225-229
loadDefaultDataResume(i) ==
    /\ Idle
    /\ i \in 1..Len(inflight)
    /\ inflight[i].kind = "load"
    /\ battingData' = inflight[i].fileBatting
    /\ pitchingData' = inflight[i].filePitching
    /\ inflight' = RemoveAt(inflight, i)
    /\ pending' = {"player"}
    /\ UNCHANGED <<filterVars, trendVars, tz, cmpVars, call, storage>>

\* loadDefaultData when a fetch fails, App.jsx:230-233
loadDefaultDataFails(i) ==
    /\ Idle
    /\ i \in 1..Len(inflight)
    /\ inflight[i].kind = "load"
    /\ inflight' = RemoveAt(inflight, i)
    /\ UNCHANGED <<dataVars, filterVars, trendVars, pending, tz, cmpVars, call,
                   storage>>

\* The application after its first render with nothing stored: the mount
\* effect has started the sample load, App.jsx:204-217.
InitUpload ==
    /\ battingData = <<>>
    /\ pitchingData = <<>>
    /\ activeFilters = InitialFilters
    /\ draftFilters = InitialFilters
    /\ trendTarget = "team"
    /\ trendType = "batting"
    /\ selectedPlayerId = ""
    /\ trendPeriod = "monthly"
    /\ ComparisonInit
    /\ call = NoCall
    /\ pending = {"player"}
    /\ inflight = <<SampleLoad>>
    /\ storage = NoStorage
    /\ tz \in TimeZones

NextUpload ==
    \/ DefaultPlayerEffect
    \/ handleFileUploadStart(TRUE, FileBatting, FALSE, <<>>)
    \/ handleFileUploadStart(FALSE, <<>>, TRUE, FilePitching)
    \/ handleFileUploadStart(TRUE, FileBatting, TRUE, FilePitching)
    \/ \E i \in 1..MaxInFlight : handleFileUploadResume(i)
    \/ clearData
    \/ \E i \in 1..MaxInFlight : loadDefaultDataResume(i)
    \/ \E i \in 1..MaxInFlight : loadDefaultDataFails(i)

SpecUpload == InitUpload /\ [][NextUpload]_vars

\* C25: when an upload of a batting file alone completes, battingData
\* becomes the file's rows and pitchingData, in memory and as stored, is
\* what pitchingData was just before the completion, whatever completed
\* while the upload awaited its file; likewise for a pitching file alone.
SingleFileUploadKeepsOtherKind ==
    [][\A i \in 1..Len(inflight) :
          (inflight[i].kind = "upload" /\ inflight' = RemoveAt(inflight, i)) =>
             /\ (inflight[i].hasBatting /\ ~inflight[i].hasPitching) =>
                   /\ battingData' = inflight[i].fileBatting
                   /\ pitchingData' = pitchingData
                   /\ storage'.pitching = pitchingData
             /\ (inflight[i].hasPitching /\ ~inflight[i].hasBatting) =>
                   /\ pitchingData' = inflight[i].filePitching
                   /\ battingData' = battingData
                   /\ storage'.batting = battingData
      ]_vars

\* the metrics offered for a data type
MetricsOf(dataType) ==
    Range(IF dataType = "batting" THEN battingMetricOptions ELSE pitchingMetricOptions)

\* C26: whenever the effects have settled, comparisonMetric is one of the
\* metrics of the current data type; the metric effect keeps a metric the
\* new data type also offers (such as "so") and otherwise falls back to
\* "avg" for batting and "era" for pitching; every switch of the data type
\* schedules both effects, and the run of the axes effect leaves the axes
\* at (obp, slg) for batting and (era, whip) for pitching.
MetricAndAxesFollowDataType ==
    [][/\ pending' = {} => comparisonMetric' \in MetricsOf(comparisonDataType')
       /\ comparisonDataType' # comparisonDataType =>
             {"scatter", "metric"} \subseteq pending'
       /\ ("metric" \in pending /\ "metric" \notin pending') =>
             comparisonMetric' =
                IF comparisonMetric \in MetricsOf(comparisonDataType)
                THEN comparisonMetric
                ELSE IF comparisonDataType = "batting" THEN "avg" ELSE "era"
       /\ ("scatter" \in pending /\ "scatter" \notin pending') =>
             <<scatterX', scatterY'>> =
                IF comparisonDataType' = "batting"
                THEN <<"obp", "slg">> ELSE <<"era", "whip">>
      ]_vars

\* a settled pitching comparison whose metric is "so", the metric both
\* data types offer, with the axes (era, whip)
MetricAndAxesWitness ==
    /\ Idle
    /\ comparisonDataType = "pitching"
    /\ comparisonMetric = "so"
    /\ comparisonChartType = "ranking"
    /\ scatterX = "era" /\ scatterY = "whip"
    /\ pitchingData # <<>>

\* the counting stats of a batting summary, of a pitching summary and of
\* the buckets of the team trend
BattingCounts ==
    {"pa", "ab", "h", "doubles", "triples", "hr", "rbi", "runs", "so", "bb",
     "hbp", "sb", "sf", "sac"}
PitchingCounts == {"outs", "h", "r", "er", "bb", "hbp", "so", "win", "loss", "sv"}
TeamBattingCounts ==
    {"ab", "h", "bb", "hbp", "sf", "runs", "doubles", "triples", "hr", "so", "sb"}
TeamPitchingCounts == {"outs", "er", "h", "bb", "hbp", "so", "s", "pitches"}

\* the sum of the field f over the records of s
FieldSum(s, f) == SumSeq([i \in 1..Len(s) |-> s[i][f]])

\* C27: the games of the batting summaries add up to the number of
\* filtered batting rows and every counting stat of the summaries to the
\* sum of that column over the filtered rows; likewise for the pitching
\* summaries, for the buckets of the team trend when every date parses,
\* and for the totals of teamStats.
CountsAreConserved ==
    LET B == filteredBattingData
        P == filteredPitchingData
        AB == aggregatedBatting
        AP == aggregatedPitching
        T == teamTrendData
        S == TeamStats(B, AB, AP)
    IN  /\ FieldSum(AB, "games") = Len(B)
        /\ \A f \in BattingCounts : FieldSum(AB, f) = FieldSum(B, f)
        /\ FieldSum(AP, "games") = Len(P)
        /\ \A f \in PitchingCounts : FieldSum(AP, f) = FieldSum(P, f)
        /\ (\A i \in 1..Len(B) : HoldsDate(B[i].date)) =>
              \A f \in TeamBattingCounts : FieldSum(T.batting, f) = FieldSum(B, f)
        /\ (\A i \in 1..Len(P) : HoldsDate(P[i].date)) =>
              \A f \in TeamPitchingCounts : FieldSum(T.pitching, f) = FieldSum(P, f)
        /\ ~S.null => /\ S.totalR = FieldSum(B, "runs")
                      /\ S.totalHR = FieldSum(B, "hr")

\* a row of each of two batters on two days of October: two summaries of
\* one game each, one monthly bucket with the five at-bats of both, and
\* the two runs and the home run of the second batter as the team's totals
CountsWitness ==
    LET B == filteredBattingData
        AB == aggregatedBatting
        S == TeamStats(B, AB, aggregatedPitching)
    IN  /\ Len(B) = 2 /\ Len(AB) = 2
        /\ AB[1].games = 1 /\ AB[2].games = 1
        /\ trendPeriod = "monthly"
        /\ Len(teamTrendData.batting) = 1 /\ teamTrendData.batting[1].ab = 5
        /\ ~S.null /\ S.totalR = 2 /\ S.totalHR = 1

\* C28: whenever teamStats is not null, its totalGames is the number of
\* entries of the game-by-game list, also for filtered batting rows that
\* carry no game identifier.
TotalGamesMatchesGameList ==
    LET S == teamStats
    IN  ~S.null => S.totalGames = Len(gameByGameStats)

\* C29: a pitcher without outs is summarised with era 0 and whip 0,
\* whatever runs were earned against that pitcher, and so stands before
\* every pitcher with a positive era in aggregatedPitching and, with the
\* threshold 0, in the era ranking.
ZeroOutsPitcherRanksFirst ==
    LET AP == aggregatedPitching
        R == RankingData(<<>>, AP, "era", Num(0), "pitching")
        zero == {AP[i].name : i \in {k \in 1..Len(AP) : AP[k].outs = 0}}
        positive == {AP[i].name : i \in {k \in 1..Len(AP) : AP[k].era > 0}}
    IN  /\ \A i \in 1..Len(AP) :
              AP[i].outs = 0 => AP[i].era = 0 /\ AP[i].whip = 0
        /\ \A i, j \in 1..Len(AP) :
              AP[i].outs = 0 /\ AP[j].era > 0 => i < j
        /\ Len(R) = Len(AP)
        /\ \A i, j \in 1..Len(R) :
              R[i].name \in zero /\ R[j].name \in positive => i < j

\* the era ranking, threshold 0, of a pitcher with an era of 3.00 loaded
\* before a pitcher who earned a run and a walk without an out: the
\* second leads the ranking with era 0
ZeroOutsWitness ==
    /\ comparisonDataType = "pitching"
    /\ comparisonMetric = "era"
    /\ comparisonMinPA = Num(0)
    /\ Idle
    /\ Len(pitchingData) = 2
    /\ pitchingData[1].outs > 0 /\ pitchingData[2].outs = 0
    /\ pitchingData[2].er = 1
    /\ LET R == rankingData
       IN  /\ Len(R) = 2
           /\ R[1].name = pitchingData[2].name
           /\ R[1].value = JsNumber(Num(0))
           /\ R[2].value.v.n > 0

\* C30: once the effects have settled, the selected player id is empty,
\* and then the player list is empty, or it is the id of a player of the
\* current player list; a data set that replaces the one the selected
\* player came from gets a selection of its own.
SelectedPlayerIsListed ==
    Idle =>
       LET ids == {playerList[i].id : i \in 1..Len(playerList)}
       IN  IF selectedPlayerId = "" THEN ids = {} ELSE selectedPlayerId \in ids

====
